---- MODULE Spec2Model ----
(***************************************************************************)
(* The concurrent, retrying, cache-aware explanation pipeline of           *)
(* codeexplain: AIEngine (batch scheduler, retry loop, explainFile) and    *)
(* CacheManager (fingerprint cache).                                       *)
(*                                                                         *)
(* File paths are the indices 0..nFiles-1 of the descriptor list.  A       *)
(* provider invocation is an asynchronous call: it is started by the       *)
(* engine and resolved or rejected later by the provider, in any order.    *)
(***************************************************************************)
EXTENDS Integers, Sequences, FiniteSets, TLC

\* ---- bounds of the model ----
MaxFiles == 2
MaxRuns == 2
MaxEdits == 1
\* the longest text whose tokens are estimated
MaxText == 21

\* ---- program constants ----
DEFAULT_CONCURRENCY == 3
MAX_CONCURRENCY == 10
DEFAULT_ATTEMPTS == 3
DEFAULT_DELAY == 1000

PROVIDERS == {"gemini", "openai", "ollama"}
\* config.provider not given (undefined)
Absent == "<absent>"
\* a provider identifier the engine does not know
Unsupported == "unsupported"

\* configured values; 0 stands for every falsy value (0 or undefined)
ConcurrencyValues == {-1, 0, 1, 2, 12}
AttemptValues == {0, 1, 2}
\* retry.delay in milliseconds; NoDelay: the config gives none
NoDelay == -1
DelayValues == {NoDelay, 0, 1, 250}

\* config.mode, config.level, config.model and the secrets; level and model
\* are free strings of the command line or the config file
DefaultMode == "explain"
\* MODES.SUMMARY, and the modes that generateExplanations takes as codebase-level
SUMMARY == "summary"
CodebaseModes == {"architecture", "arch", "onboarding"}
Levels == {"expert", "expert-ollama"}
Models == {"m", "ollama-m"}
ApiKeys == {"k1", "k2"}
BaseUrls == {"", "http://host"}

Contents == {"a", "b", "cc"}
Responses == {"", "x"}
\* the explanation of a record left in the cache directory by an earlier process
PriorExplanation == "p"
\* the explanation stored by another client of the cache directory
OtherExplanation == "o"
NullContent == "<null>"
ErrorText == "Error generating explanation: provider failure"

VARIABLES
  config,      \* the engine's config: provider, concurrency, retry.attempts, cache,
               \* mode, level, model, apiKey, baseUrl
  nFiles,      \* length of the descriptor list handed to the run
  disk,        \* the source files on disk: content and mtime
  edits,       \* number of writes made to source files by the environment
  cache,       \* the cache directory: one record per key (path under the fixed configuration)
  files,       \* the descriptors of the run (content is cleared after processing)
  runPc,       \* position of generateExplanations / the batch loop
  runs,        \* number of runs started
  i,           \* the batch loop variable
  results,     \* the results array
  completed,   \* the completed counter of the batch loop
  pc,          \* position of each file's task
  attempt,     \* loop variable of retryWithBackoff of each task
  out,         \* value a settled task's promise resolved to
  calls,       \* provider invocations made for each file in this run
  fails,       \* provider invocations that rejected, for each file, in this run
  prevCalls,   \* provider invocations made for each file in earlier runs
  prevFails,   \* rejected provider invocations of each file in earlier runs
  lastResp,    \* response of the successful provider call of each file in this run
  thrown,      \* what retryWithBackoff threw to its caller in this run, per file
  changed,     \* the file's content was changed since the first run started
  overtaken,   \* in this run a task settled before a lower-index task of its batch
  lookup,      \* the getCachedExplanation call of each file in this run: what it
               \* returned and how many reads of the file content it made
  other,       \* the config of another client that shares the cache directory
  foreign,     \* number of records stored by that client
  caught,      \* errors caught by the cache manager for each file in this run
  progress,    \* the calls of the progress callback made in this run, in order
  tokenUsage,  \* this.tokenUsage, the usage counters of the engine
  inputTokens, \* the inputTokens constant of each task of this run
  single,      \* the single-file call of generateExplanations on the same engine
  estimate,    \* a direct call of estimateTokens: its arguments and what it returned
  engine,      \* the AIEngine object: not yet constructed, constructed, or the constructor threw
  backoff,     \* retryWithBackoff of each task: its local delay and the waits made so far
  codebase,    \* the codebase-level call of generateExplanations: its two phases, the tasks of phase 1 and the synthesis of phase 2
  budget       \* the environment: how many runs the user starts, how many
               \* writes other programs make to the source files, how many
               \* records the other client stores, whether file system calls
               \* fail, whether provider responses carry usage metadata and
               \* how many single-file calls the user starts

vars == <<config, nFiles, disk, edits, cache, files, runPc, runs, i, results,
          completed, pc, attempt, out, calls, fails, prevCalls, prevFails,
          lastResp, thrown, changed, overtaken, lookup, other, foreign, caught, progress, tokenUsage, inputTokens, single, estimate, engine, backoff, codebase, budget>>

Min(a, b) == IF a < b THEN a ELSE b
Max(a, b) == IF a > b THEN a ELSE b

Files == 0..(nFiles - 1)

\* ---- constructor ----
\* this.provider = config.provider ?? PROVIDERS.GEMINI
provider == IF config.provider = Absent THEN "gemini" ELSE config.provider

\* a constructor that asks every provider for an API key
constructorThrowsKeyless == config.apiKey = "" \/ provider \notin PROVIDERS

\* the two throw statements of the constructor and of setupModel:
\* if (!this.apiKey && this.provider !== 'ollama') throw ...; else (no known
\* provider) throw ...
constructorThrows ==
  \/ config.apiKey = "" /\ provider # "ollama"
  \/ provider \notin PROVIDERS

\* this.concurrency = Math.min(config.concurrency || DEFAULT_CONCURRENCY, MAX_CONCURRENCY)
concurrency ==
  Min(IF config.concurrency = 0 THEN DEFAULT_CONCURRENCY ELSE config.concurrency,
      MAX_CONCURRENCY)

\* the configured value taken as it is, without the default
retriesAsConfigured == config.attempts

\* const retries = this.config.retry?.attempts || 3
retries == IF config.attempts = 0 THEN DEFAULT_ATTEMPTS ELSE config.attempts

\* let delay = this.config.retry?.delay || 1000
baseDelay == IF config.delay \in {NoDelay, 0} THEN DEFAULT_DELAY ELSE config.delay

\* the locals of retryWithBackoff at its start
retryWithBackoff == [delay |-> baseDelay, waits |-> <<>>]

\* await new Promise(resolve => setTimeout(resolve, delay))
Waited(b) == [b EXCEPT !.waits = Append(@, b.delay)]

\* delay *= 2
Doubled(b) == [b EXCEPT !.delay = 2 * @]

\* ---- Array.prototype.slice(start, end) as the set of positions it keeps ----
RelIndex(k, len) == IF k < 0 THEN Max(len + k, 0) ELSE Min(k, len)

slice(len, start, end) ==
  {k \in 0..(len - 1) : RelIndex(start, len) <= k /\ k < RelIndex(end, len)}

\* const batch = files.slice(i, i + this.concurrency)
batch == slice(nFiles, i, i + concurrency)

\* the index of a task taken to be its position in the batch
globalIndexInBatch(k) == k - RelIndex(i, nFiles)

\* const globalIndex = i + batchIndex
globalIndex(k) == i + (k - RelIndex(i, nFiles))

\* ---- file system ----
FileSize(content) == Len(content)
Sha256(content) == <<"sha256", content>>

\* the path of the descriptor at index p
FilePath(p) == "src/file" \o ToString(p) \o ".js"

Md5(string) == <<"md5", string>>

\* `${value}` in a template string
Templated(value) == IF value = Absent THEN "undefined" ELSE value

\* const keyString = `${filePath}-${config.mode}-${config.level}-${config.provider}-${config.model}`
keyString(p, cfg) ==
  FilePath(p) \o "-" \o cfg.mode \o "-" \o cfg.level \o "-" \o Templated(cfg.provider)
              \o "-" \o cfg.model

\* getCacheKey(filePath, config)
getCacheKey(p, cfg) == Md5(keyString(p, cfg))

\* a record that keeps the whole config
cacheConfigWithSecrets(cfg) ==
  [mode |-> cfg.mode, level |-> cfg.level, provider |-> cfg.provider,
   model |-> cfg.model, apiKey |-> cfg.apiKey, baseUrl |-> cfg.baseUrl]

\* const cacheConfig = { mode, level, provider, model }
cacheConfig(cfg) ==
  [mode |-> cfg.mode, level |-> cfg.level, provider |-> cfg.provider,
   model |-> cfg.model]

NoConfig == [mode |-> "", level |-> "", provider |-> "", model |-> ""]

NoRecord == [exists |-> FALSE, fileHash |-> <<"sha256", "">>, fileSize |-> 0,
             mtime |-> 0, explanation |-> "", timestamp |-> 0, config |-> NoConfig]

JsNull == [null |-> TRUE, text |-> ""]
JsString(s) == [null |-> FALSE, text |-> s]
\* JavaScript truthiness of a value that is null or a string
Truthy(v) == ~v.null /\ v.text # ""

\* ---- CacheManager ----
\* the calls of the file system library that can fail inside a lookup and
\* inside a store; "none": no call fails
LookupFaults == {"none", "pathExists", "readJson", "stat", "readFile", "writeJson"}
StoreFaults == {"none", "stat", "readFile", "writeJson"}

\* what a lookup gives: the value returned, the number of reads of the file
\* content, the record left behind, and whether the catch block was entered
Returned(v, n, r) == [ret |-> v, reads |-> n, rec |-> r, caught |-> FALSE]
\* catch (error) { console.warn(...); return null }
Caught(n, r) == [ret |-> JsNull, reads |-> n, rec |-> r, caught |-> TRUE]

\* a lookup without the mtime-and-size fast path: the content is always hashed
getCachedExplanationHashing(p, e) ==
  LET rec == cache[p]
      currentMtime == disk[p].mtime
      currentSize == FileSize(disk[p].content)
      currentHash == Sha256(disk[p].content)
  IN IF e = "pathExists" THEN Caught(0, rec)
     ELSE IF ~rec.exists THEN Returned(JsNull, 0, rec)
     ELSE IF e \in {"readJson", "stat"} THEN Caught(0, rec)
     ELSE IF rec.fileSize = currentSize
       THEN IF e = "readFile" THEN Caught(1, rec)
            ELSE IF rec.fileHash = currentHash
              THEN IF e = "writeJson" THEN Caught(1, rec)
                   ELSE Returned(JsString(rec.explanation), 1,
                                 [rec EXCEPT !.mtime = currentMtime])
            ELSE Returned(JsNull, 1, rec)
     ELSE Returned(JsNull, 0, rec)

\* a lookup whose medium path returns the explanation without writing the
\* record back
getCachedExplanationNoRefresh(p, e) ==
  LET rec == cache[p]
      currentMtime == disk[p].mtime
      currentSize == FileSize(disk[p].content)
      currentHash == Sha256(disk[p].content)
  IN IF e = "pathExists" THEN Caught(0, rec)
     ELSE IF ~rec.exists THEN Returned(JsNull, 0, rec)
     ELSE IF e \in {"readJson", "stat"} THEN Caught(0, rec)
     ELSE IF rec.mtime = currentMtime /\ rec.fileSize = currentSize
       THEN Returned(JsString(rec.explanation), 0, rec)
     ELSE IF rec.fileSize = currentSize
       THEN IF e = "readFile" THEN Caught(1, rec)
            ELSE IF rec.fileHash = currentHash
              THEN Returned(JsString(rec.explanation), 1, rec)
            ELSE Returned(JsNull, 1, rec)
     ELSE Returned(JsNull, 0, rec)

\* a lookup that takes an equal size on the medium path for an equal content,
\* without comparing the hashes
getCachedExplanationSizeOnly(p, e) ==
  LET rec == cache[p]
      currentMtime == disk[p].mtime
      currentSize == FileSize(disk[p].content)
  IN IF e = "pathExists" THEN Caught(0, rec)
     ELSE IF ~rec.exists THEN Returned(JsNull, 0, rec)
     ELSE IF e \in {"readJson", "stat"} THEN Caught(0, rec)
     ELSE IF rec.mtime = currentMtime /\ rec.fileSize = currentSize
       THEN Returned(JsString(rec.explanation), 0, rec)
     ELSE IF rec.fileSize = currentSize
       THEN IF e \in {"readFile", "writeJson"} THEN Caught(1, rec)
            ELSE Returned(JsString(rec.explanation), 1,
                          [rec EXCEPT !.mtime = currentMtime])
     ELSE Returned(JsNull, 0, rec)

\* new Date(): the wall clock, which every call of the engine and every
\* write of another program finds later than the one before did; the records
\* of earlier processes were stamped at 0
Now == 1 + runs + single.runs + codebase.runs + edits + foreign

\* a lookup whose medium path stores the record anew
getCachedExplanationRestoring(p, e) ==
  LET rec == cache[p]
      currentMtime == disk[p].mtime
      currentSize == FileSize(disk[p].content)
      currentHash == Sha256(disk[p].content)
  IN IF e = "pathExists" THEN Caught(0, rec)
     ELSE IF ~rec.exists THEN Returned(JsNull, 0, rec)
     ELSE IF e \in {"readJson", "stat"} THEN Caught(0, rec)
     ELSE IF rec.mtime = currentMtime /\ rec.fileSize = currentSize
       THEN Returned(JsString(rec.explanation), 0, rec)
     ELSE IF rec.fileSize = currentSize
       THEN IF e = "readFile" THEN Caught(1, rec)
            ELSE IF rec.fileHash = currentHash
              THEN IF e = "writeJson" THEN Caught(1, rec)
                   ELSE Returned(JsString(rec.explanation), 1,
                                 [rec EXCEPT !.mtime = currentMtime, !.timestamp = Now])
            ELSE Returned(JsNull, 1, rec)
     ELSE Returned(JsNull, 0, rec)

\* getCachedExplanation(filePath, config) when the library call e fails (if
\* the lookup gets to make it): every error is caught and gives null
getCachedExplanation(p, e) ==
  LET rec == cache[p]
      currentMtime == disk[p].mtime
      currentSize == FileSize(disk[p].content)
      currentHash == Sha256(disk[p].content)
  IN IF e = "pathExists" THEN Caught(0, rec)
     ELSE IF ~rec.exists THEN Returned(JsNull, 0, rec)
     ELSE IF e \in {"readJson", "stat"} THEN Caught(0, rec)
     ELSE IF rec.mtime = currentMtime /\ rec.fileSize = currentSize
       THEN Returned(JsString(rec.explanation), 0, rec)
     ELSE IF rec.fileSize = currentSize
       THEN IF e = "readFile" THEN Caught(1, rec)
            ELSE IF rec.fileHash = currentHash
              THEN IF e = "writeJson" THEN Caught(1, rec)
                   ELSE Returned(JsString(rec.explanation), 1,
                                 [rec EXCEPT !.mtime = currentMtime])
            ELSE Returned(JsNull, 1, rec)
     ELSE Returned(JsNull, 0, rec)

\* the record a store writes
cacheData(p, cfg, explanation) ==
  [exists |-> TRUE,
   fileHash |-> Sha256(disk[p].content),
   fileSize |-> FileSize(disk[p].content),
   mtime |-> disk[p].mtime,
   explanation |-> explanation,
   timestamp |-> Now,
   config |-> cacheConfig(cfg)]

\* a store that writes its record although a library call failed
setCachedExplanationDespiteError(p, cfg, explanation, e) ==
  [written |-> TRUE, rec |-> cacheData(p, cfg, explanation), caught |-> e # "none"]

\* setCachedExplanation(filePath, config, explanation) when the library call
\* e fails: whether a record is written, the record, and whether the catch
\* block was entered
setCachedExplanation(p, cfg, explanation, e) ==
  IF e = "none"
    THEN [written |-> TRUE, rec |-> cacheData(p, cfg, explanation), caught |-> FALSE]
    ELSE [written |-> FALSE, rec |-> NoRecord, caught |-> TRUE]

\* ---- token accounting ----
\* the usage metadata of a provider response; -1: the field is not a number
NoMetadata == [prompt_tokens |-> -1, completion_tokens |-> -1, total_tokens |-> -1]
Metadatas ==
  {NoMetadata,
   [prompt_tokens |-> 2, completion_tokens |-> 1, total_tokens |-> -1],
   [prompt_tokens |-> -1, completion_tokens |-> -1, total_tokens |-> 4]}

CeilDiv(a, b) == (a + b - 1) \div b

\* encoding.encode(text).length: one token per character stands in for the
\* tokenizer of the tiktoken library
Tiktoken(text) == Len(text)

\* estimateTokens with the total looked at before the two counts
estimateTokensTotalFirst(text, metadata) ==
  IF metadata.total_tokens >= 0 THEN metadata.total_tokens
  ELSE IF metadata.completion_tokens >= 0 /\ metadata.prompt_tokens >= 0
    THEN metadata.prompt_tokens + metadata.completion_tokens
  ELSE IF text = "" THEN 0
  ELSE IF provider = "openai" THEN Tiktoken(text)
  ELSE CeilDiv(Len(text), 4)

\* estimateTokens(text, metadata)
estimateTokens(text, metadata) ==
  IF metadata.completion_tokens >= 0 /\ metadata.prompt_tokens >= 0
    THEN metadata.prompt_tokens + metadata.completion_tokens
  ELSE IF metadata.total_tokens >= 0 THEN metadata.total_tokens
  ELSE IF text = "" THEN 0
  ELSE IF provider = "openai" THEN Tiktoken(text)
  ELSE CeilDiv(Len(text), 4)

\* buildPrompt(fileAnalysis): the rendered template with the file's content
buildPrompt(content) == "Explain: " \o content \o " Respond in markdown."

\* this.tokenUsage = { totalInputTokens: 0, ... }
ZeroUsage ==
  [totalInputTokens |-> 0, totalOutputTokens |-> 0, totalTokens |-> 0,
   cachedFiles |-> 0, processedFiles |-> 0]

\* counters carried over from the run before
CarriedUsage == tokenUsage

\* generateExplanations: // Reset token tracking
ResetUsage == ZeroUsage

\* a hit counted as a processed file
CountHitAsProcessed(usage) == [usage EXCEPT !.processedFiles = @ + 1]

\* this.tokenUsage.cachedFiles++
CountHit(usage) == [usage EXCEPT !.cachedFiles = @ + 1]

\* this.tokenUsage.totalInputTokens += inputTokens; this.tokenUsage.processedFiles++
CountPrompt(usage, tokens) ==
  [usage EXCEPT !.totalInputTokens = @ + tokens, !.processedFiles = @ + 1]

\* this.tokenUsage.totalOutputTokens += outputTokens;
\* this.tokenUsage.totalTokens += inputTokens + outputTokens
CountResponse(usage, tokensIn, tokensOut) ==
  [usage EXCEPT !.totalOutputTokens = @ + tokensOut,
                !.totalTokens = @ + tokensIn + tokensOut]

\* ---- values of the scheduler ----
NoOut == [kind |-> "none", explanation |-> "", cached |-> FALSE]
\* the slot was written by the preparation loop itself (request batching, cache hit)
WrittenOut == [kind |-> "written", explanation |-> "", cached |-> TRUE]
OkOut(e, c) == [kind |-> "ok", explanation |-> e, cached |-> c]
FailOut == [kind |-> "fail", explanation |-> "", cached |-> FALSE]

Hole == [kind |-> "hole", path |-> -1, explanation |-> "", cached |-> FALSE]
NullSlot == [kind |-> "null", path |-> -1, explanation |-> "", cached |-> FALSE]
ResultSlot(p, e, c) == [kind |-> "result", path |-> p, explanation |-> e, cached |-> c]

\* results[index] = result / results[index] = null
SlotOf(f) ==
  IF out[f].kind = "ok"
    THEN ResultSlot(files[f].path, out[f].explanation, out[f].cached)
    ELSE NullSlot

\* results.length
ArrayLength(arr) ==
  LET set == {k \in DOMAIN arr : arr[k].kind # "hole"}
  IN IF set = {} THEN 0 ELSE 1 + CHOOSE k \in set : \A m \in set : m <= k

NoLookup == [done |-> FALSE, ret |-> JsNull, reads |-> 0]
NoneCaught == [lookup |-> FALSE, store |-> FALSE]

requestBatching == provider = "openai"

\* a cache that is used whatever the config says
cacheEnabledAlways == TRUE

\* this.config.cache !== false
cacheEnabled == config.cache

\* A record written for file p by an earlier process, when the file was as it is now
PriorRecord(content) ==
  [exists |-> TRUE, fileHash |-> Sha256(content), fileSize |-> FileSize(content),
   mtime |-> 0, explanation |-> PriorExplanation, timestamp |-> 0,
   config |-> cacheConfig(config)]

\* path: ... ? 'project-architecture' : 'developer-onboarding'
SyntheticPaths == {"project-architecture", "developer-onboarding"}

\* what a step of a phase-1 task read in this.config.mode: for the key of
\* its lookup, for its prompt template and for the key of its store
NoTask ==
  [pc |-> "idle", originalMode |-> "", calls |-> 0, slot |-> Hole,
   seen |-> [lookup |-> "", prompt |-> "", store |-> ""]]

\* the codebase-level call before it is made; keyFiles: the descriptors
\* whose relativePath includes 'package.json', 'main', 'index', 'app' or 'config'
NoCodebase ==
  [pc |-> "idle", runs |-> 0, entryMode |-> "", i |-> 0, completed |-> 0,
   launched |-> {}, task |-> [f \in Files |-> NoTask], keyFiles |-> {},
   strayed |-> {}, records |-> [sp \in SyntheticPaths |-> NoRecord],
   path |-> "", summary |-> "", looked |-> 0, calls |-> 0, stores |-> 0,
   synthesized |-> {}, result |-> <<>>, error |-> ""]

\* the fields of the config that the scheduler does not read, at fixed values
Unvaried ==
  /\ config.mode = DefaultMode /\ config.level = "expert" /\ config.model = "m"
  /\ config.apiKey = "k1" /\ config.baseUrl = "" /\ config.delay = NoDelay

Configs ==
  [provider : PROVIDERS, concurrency : ConcurrencyValues, attempts : AttemptValues,
   cache : BOOLEAN, mode : {DefaultMode}, level : Levels, model : Models,
   apiKey : ApiKeys, baseUrl : BaseUrls, delay : DelayValues]

\* the other client's config: the fields the cache manager reads
OtherConfigs ==
  [mode : {DefaultMode}, level : Levels, provider : {"gemini", "ollama"},
   model : Models, apiKey : ApiKeys, baseUrl : BaseUrls]

NoOther == [mode |-> "", level |-> "", provider |-> "", model |-> "",
            apiKey |-> "", baseUrl |-> ""]

\* The inputs are drawn from families, each of which varies the dimensions
\* one part of the pipeline depends on.
\* Scheduling: up to MaxFiles files, every provider and concurrency value, one
\* retry, one run, a cache directory that may hold records of an earlier process.
Scheduling ==
  /\ config \in Configs /\ Unvaried
  /\ config.attempts = 1
  /\ nFiles \in 2..MaxFiles
  /\ cache \in [Files -> {NoRecord, PriorRecord("a")}]
  /\ other = NoOther
  /\ budget = [runs |-> 1, writes |-> 0, stores |-> 0, faulty |-> FALSE, metadata |-> FALSE, single |-> 0]

\* Retrying: one file, every retry.attempts value, provider responses with
\* and without usage metadata.
Retrying ==
  /\ config \in Configs /\ Unvaried
  /\ config.concurrency = 0
  /\ nFiles = 1
  /\ cache = [f \in Files |-> NoRecord]
  /\ other = NoOther
  /\ budget = [runs |-> 1, writes |-> 0, stores |-> 0, faulty |-> FALSE, metadata |-> TRUE, single |-> 0]

\* Caching: one file, an empty cache directory, several runs over the file
\* while other programs write to it.
Caching ==
  /\ config \in Configs /\ Unvaried
  /\ config.concurrency = 0 /\ config.attempts = 1
  /\ nFiles = 1
  /\ cache = [f \in Files |-> NoRecord]
  /\ other = NoOther
  /\ budget = [runs |-> MaxRuns, writes |-> MaxEdits, stores |-> 0, faulty |-> FALSE, metadata |-> FALSE, single |-> 0]

\* Sharing: one file, one run, a cache directory that another client with
\* a config of its own stores into; level, model and the secrets vary.
Sharing ==
  /\ config \in Configs
  /\ config.provider = "ollama" /\ config.concurrency = 0 /\ config.attempts = 1
  /\ config.cache /\ config.apiKey = "k1" /\ config.baseUrl = "" /\ config.delay = NoDelay
  /\ nFiles = 1
  /\ cache = [f \in Files |-> NoRecord]
  /\ other \in OtherConfigs
  /\ budget = [runs |-> 1, writes |-> 0, stores |-> 1, faulty |-> FALSE, metadata |-> FALSE, single |-> 0]

\* Failing: one file, a cache directory that may hold a record of an earlier
\* process and is shared with another client, and a file system whose calls
\* may fail.
Failing ==
  /\ config \in Configs /\ Unvaried
  /\ config.concurrency = 0 /\ config.attempts = 1 /\ config.cache
  /\ nFiles = 1
  /\ cache \in [Files -> {NoRecord, PriorRecord("a")}]
  /\ other = [mode |-> config.mode, level |-> config.level, provider |-> config.provider,
              model |-> config.model, apiKey |-> "k2", baseUrl |-> ""]
  /\ budget = [runs |-> 1, writes |-> MaxEdits, stores |-> 1, faulty |-> TRUE, metadata |-> FALSE, single |-> 0]

\* Waiting: one file, no cache, every retry.attempts and retry.delay value.
Waiting ==
  /\ config \in Configs
  /\ config.mode = DefaultMode /\ config.level = "expert" /\ config.model = "m"
  /\ config.apiKey = "k1" /\ config.baseUrl = ""
  /\ config.concurrency = 0 /\ ~config.cache
  /\ nFiles = 1
  /\ cache = [f \in Files |-> NoRecord]
  /\ other = NoOther
  /\ budget = [runs |-> 1, writes |-> 0, stores |-> 0, faulty |-> FALSE, metadata |-> FALSE, single |-> 0]

\* Codebase: an architecture run over several descriptors, the first of
\* which may be a key file, with summary records of an earlier process in
\* the cache directory or without; or every codebase-level mode over one
\* descriptor, several calls in a row, prompt templates that may fail to load.
Codebase ==
  /\ config \in {[c EXCEPT !.mode = m] : c \in Configs, m \in CodebaseModes}
  /\ config.level = "expert" /\ config.model = "m"
  /\ config.apiKey = "k1" /\ config.baseUrl = "" /\ config.delay = NoDelay
  /\ config.provider \in {"gemini", "openai"} /\ config.attempts = 1
  /\ \/ /\ config.mode = "architecture" /\ config.concurrency \in {0, 1}
        /\ nFiles \in 2..MaxFiles
        /\ budget = [runs |-> 1, writes |-> 0, stores |-> 0, faulty |-> FALSE,
                     metadata |-> FALSE, single |-> 0]
     \/ /\ config.concurrency = 0
        /\ nFiles = 1
        /\ budget \in {[runs |-> MaxRuns, writes |-> 0, stores |-> 0, faulty |-> flt,
                        metadata |-> FALSE, single |-> 0] : flt \in BOOLEAN}
  /\ cache \in [Files -> {NoRecord, [PriorRecord("a") EXCEPT !.config.mode = SUMMARY]}]
  /\ other = NoOther

\* Alone: no list run; single-file calls, one after the other, for a file
\* whose record may be in the cache directory.
Alone(faulty) ==
  /\ config \in Configs /\ Unvaried
  /\ config.concurrency = 0 /\ config.attempts = 1
  /\ nFiles = 1
  /\ cache \in [Files -> {NoRecord, PriorRecord("a")}]
  /\ other = NoOther
  /\ budget = [runs |-> 0, writes |-> 0, stores |-> 0, faulty |-> faulty, metadata |-> FALSE, single |-> MaxRuns]

\* Overlapping: a list run over one file and a single-file call on the same
\* engine, neither of which waits for the other.
Overlapping ==
  /\ config \in Configs /\ Unvaried
  /\ config.concurrency = 0 /\ config.attempts = 1
  /\ nFiles = 1
  /\ cache \in [Files -> {NoRecord, PriorRecord("a")}]
  /\ other = NoOther
  /\ budget = [runs |-> 1, writes |-> 0, stores |-> 0, faulty |-> FALSE, metadata |-> FALSE, single |-> 1]

\* retryWithBackoff before it is called
NoBackoff == [delay |-> 0, waits |-> <<>>]

\* the single-file call before it is made
NoSingle ==
  [pc |-> "idle", runs |-> 0, content |-> NullContent, attempt |-> 0, calls |-> 0,
   fails |-> 0, inputTokens |-> 0, result |-> NoOut, progress |-> <<>>,
   backoff |-> NoBackoff]

\* no direct call of estimateTokens is made
NoEstimate == [text |-> "", metadata |-> NoMetadata, done |-> FALSE, result |-> 0]

\* the engine's fields as the constructor sets them, the files as the
\* analyzer will find them
Fresh ==
  /\ foreign = 0
  /\ codebase \in {[NoCodebase EXCEPT !.keyFiles = K] :
                     K \in SUBSET (IF config.mode \in CodebaseModes THEN {0} ELSE {})}
  /\ backoff = [f \in Files |-> NoBackoff]
  /\ single = NoSingle
  /\ caught = [f \in Files |-> NoneCaught]
  /\ progress = <<>>
  /\ tokenUsage = ZeroUsage
  /\ inputTokens = [f \in Files |-> 0]
  /\ disk = [f \in Files |-> [content |-> "a", mtime |-> 0]]
  /\ edits = 0
  /\ files = [f \in Files |-> [path |-> f, content |-> NullContent]]
  /\ runPc = "idle"
  /\ runs = 0
  /\ i = 0
  /\ results = [f \in Files |-> Hole]
  /\ completed = 0
  /\ pc = [f \in Files |-> "idle"]
  /\ attempt = [f \in Files |-> 0]
  /\ out = [f \in Files |-> NoOut]
  /\ calls = [f \in Files |-> 0]
  /\ fails = [f \in Files |-> 0]
  /\ prevCalls = [f \in Files |-> 0]
  /\ prevFails = [f \in Files |-> 0]
  /\ lastResp = [f \in Files |-> JsNull]
  /\ thrown = [f \in Files |-> FALSE]
  /\ changed = [f \in Files |-> FALSE]
  /\ overtaken = FALSE
  /\ lookup = [f \in Files |-> NoLookup]

\* the engine after construction
Constructed == engine = "constructed" /\ Fresh

\* the callers of the file pipeline make no direct call of estimateTokens
NoCall == estimate = NoEstimate

Init ==
  /\ NoCall
  /\ (Scheduling \/ Retrying \/ Caching \/ Sharing \/ Waiting \/ Alone(FALSE))
  /\ Constructed

\* the engine in an environment whose file system calls may fail
InitFailing == NoCall /\ (Failing \/ Alone(TRUE)) /\ Constructed

\* the engine used by a caller that may start a call while another is pending
InitOverlapping == Init \/ (NoCall /\ Overlapping /\ Constructed)

envVars == <<disk, edits, changed, other, foreign>>
runVars == <<runPc, runs, i, results, completed>>
taskVars == <<files, pc, attempt, out, calls, fails, overtaken, lastResp, thrown,
              lookup, caught, progress, inputTokens, backoff>>
ghostVars == <<prevCalls, prevFails, budget>>

\* ---- the environment: another program writes a source file ----
\* the modification time after a write: later than before, or the same (a
\* write within the timestamp's granularity, a tool that restores the mtime)
MtimesAfterWrite(f) == {disk[f].mtime, disk[f].mtime + 1}

ExternalWrite(f, c, m) ==
  /\ edits < budget.writes
  /\ edits' = edits + 1
  /\ disk' = [disk EXCEPT ![f] = [content |-> c, mtime |-> m]]
  /\ changed' = [changed EXCEPT ![f] = @ \/ (runs > 0 /\ c # disk[f].content)]
  /\ UNCHANGED <<config, nFiles, codebase, backoff, engine, estimate, single, inputTokens, tokenUsage, progress, caught, cache, files, runVars, pc, attempt, out, calls,
                 fails, ghostVars, overtaken, lastResp, thrown, lookup, other, foreign>>

\* ---- the environment: another client of the cache directory stores ----
\* setCachedExplanation(filePath, other, explanation) called by a client whose
\* config is `other`: it writes the record file named by its own key, which
\* is the file the engine reads when the two keys are equal
ForeignStore(p) ==
  /\ foreign < budget.stores
  /\ foreign' = foreign + 1
  /\ LET S == setCachedExplanation(p, other, OtherExplanation, "none")
     IN cache' = IF getCacheKey(p, other) = getCacheKey(p, config) /\ S.written
                   THEN [cache EXCEPT ![p] = S.rec]
                   ELSE cache
  /\ UNCHANGED <<config, nFiles, codebase, backoff, engine, estimate, single, inputTokens, tokenUsage, progress, caught, disk, edits, changed, other, files, runVars, pc,
                 attempt, out, calls, fails, ghostVars, overtaken, lastResp, thrown,
                 lookup>>

\* ---- generateExplanations(analysis, progressCallback), analysis an array ----
\* The analyzer has just read the files; the run starts with the batch loop.
generateExplanations ==
  /\ engine = "constructed"
  /\ config.mode \notin CodebaseModes
  /\ codebase.pc \in {"idle", "returned", "rejected"}
  /\ runPc \in {"idle", "returned", "rejected"}
  /\ runs + codebase.runs < budget.runs
  /\ runs' = runs + 1
  /\ files' = [f \in Files |-> [path |-> f, content |-> disk[f].content]]
  /\ runPc' = "loop"
  /\ i' = 0
  /\ results' = [f \in Files |-> Hole]
  /\ completed' = 0
  /\ pc' = [f \in Files |-> "idle"]
  /\ attempt' = [f \in Files |-> 0]
  /\ backoff' = [f \in Files |-> NoBackoff]
  /\ out' = [f \in Files |-> NoOut]
  /\ calls' = [f \in Files |-> 0]
  /\ fails' = [f \in Files |-> 0]
  /\ lastResp' = [f \in Files |-> JsNull]
  /\ thrown' = [f \in Files |-> FALSE]
  /\ lookup' = [f \in Files |-> NoLookup]
  /\ caught' = [f \in Files |-> NoneCaught]
  /\ progress' = <<>>
  /\ tokenUsage' = ResetUsage
  /\ inputTokens' = [f \in Files |-> 0]
  /\ overtaken' = FALSE
  /\ prevCalls' = [f \in Files |-> prevCalls[f] + calls[f]]
  /\ prevFails' = [f \in Files |-> prevFails[f] + fails[f]]
  /\ UNCHANGED <<config, nFiles, codebase, engine, estimate, single, envVars, cache, budget>>

\* for (let i = 0; i < files.length; i += this.concurrency): the loop test,
\* the slice and the launch of the batch's tasks
NextBatch ==
  /\ runPc = "loop"
  /\ i < nFiles
  /\ IF requestBatching
       THEN /\ pc' = [f \in Files |-> IF f \in batch THEN "queued" ELSE pc[f]]
            /\ runPc' = "prepare"
       ELSE /\ pc' = [f \in Files |-> IF f \in batch THEN "start" ELSE pc[f]]
            /\ runPc' = "await"
  /\ UNCHANGED <<config, nFiles, codebase, backoff, engine, estimate, single, inputTokens, tokenUsage, progress, caught, envVars, cache, files, runs, i, results,
                 completed, attempt, out, calls, fails, ghostVars, overtaken, lastResp,
                 thrown, lookup>>

\* the loop test fails: return results
ReturnResults ==
  /\ runPc = "loop"
  /\ ~(i < nFiles)
  /\ runPc' = "returned"
  /\ UNCHANGED <<config, nFiles, codebase, backoff, engine, estimate, single, inputTokens, tokenUsage, progress, caught, envVars, cache, files, runs, i, results,
                 completed, pc, attempt, out, calls, fails, ghostVars, overtaken, lastResp,
                 thrown, lookup>>

\* i += this.concurrency; once i is negative every later batch is empty and
\* the value of i no longer matters, so it is not decreased further
NextIndex == IF i < 0 THEN i ELSE i + concurrency

LookupRecord(L) == [done |-> TRUE, ret |-> L.ret, reads |-> L.reads]

\* the library calls that may fail in this environment
FaultsOf(calls_) == IF budget.faulty THEN calls_ ELSE {"none"}

\* f settles while a lower-index task of its batch has not settled yet
Overtakes(f) == \E g \in batch : g < f /\ pc[g] # "settled"

ClearContent(f) == [files EXCEPT ![f].content = NullContent]

\* ---- explainFile(fileAnalysis) run by processFilesInBatches ----
\* cache lookup; on a hit the task settles
ExplainFileLookup(f) ==
  /\ runPc = "await" /\ ~requestBatching
  /\ pc[f] = "start"
  /\ IF cacheEnabled
       THEN \E e \in FaultsOf(LookupFaults) :
            LET p == files[f].path
                L == getCachedExplanation(p, e)
            IN /\ cache' = [cache EXCEPT ![p] = L.rec]
               /\ lookup' = [lookup EXCEPT ![f] = LookupRecord(L)]
               /\ caught' = [caught EXCEPT ![f].lookup = L.caught]
               /\ IF Truthy(L.ret)
                    THEN /\ tokenUsage' = CountHit(tokenUsage)
                         /\ out' = [out EXCEPT ![f] = OkOut(L.ret.text, TRUE)]
                         /\ files' = ClearContent(f)
                         /\ pc' = [pc EXCEPT ![f] = "settled"]
                    ELSE /\ pc' = [pc EXCEPT ![f] = "prompt"]
                         /\ UNCHANGED <<tokenUsage, out, files>>
       ELSE /\ pc' = [pc EXCEPT ![f] = "prompt"]
            /\ UNCHANGED <<cache, lookup, caught, tokenUsage, out, files>>
  /\ overtaken' = (overtaken \/ (pc'[f] = "settled" /\ Overtakes(f)))
  /\ UNCHANGED <<config, nFiles, codebase, backoff, engine, estimate, single, inputTokens, progress, envVars, runVars, attempt, calls, fails,
                 ghostVars, lastResp, thrown>>

\* buildPrompt resolves; retryWithBackoff makes its first provider invocation
ExplainFilePrompt(f) ==
  /\ runPc = "await" /\ ~requestBatching
  /\ pc[f] = "prompt"
  /\ LET tokens == estimateTokens(buildPrompt(files[f].content), NoMetadata)
     IN /\ inputTokens' = [inputTokens EXCEPT ![f] = tokens]
        /\ tokenUsage' = CountPrompt(tokenUsage, tokens)
  /\ pc' = [pc EXCEPT ![f] = "inflight"]
  /\ attempt' = [attempt EXCEPT ![f] = 0]
  /\ backoff' = [backoff EXCEPT ![f] = retryWithBackoff]
  /\ calls' = [calls EXCEPT ![f] = @ + 1]
  /\ UNCHANGED <<config, nFiles, codebase, engine, estimate, single, progress, caught, envVars, cache, files, runVars, out, fails,
                 ghostVars, overtaken, lastResp, thrown, lookup>>

\* buildPrompt rejects (the prompt template cannot be read): explainFile
\* rejects and the task wrapper of processFilesInBatches catches it
ExplainFilePromptRejects(f) ==
  /\ runPc = "await" /\ ~requestBatching
  /\ pc[f] = "prompt"
  /\ out' = [out EXCEPT ![f] = FailOut]
  /\ files' = ClearContent(f)
  /\ pc' = [pc EXCEPT ![f] = "settled"]
  /\ overtaken' = (overtaken \/ Overtakes(f))
  /\ UNCHANGED <<config, nFiles, codebase, backoff, engine, estimate, single, inputTokens, tokenUsage, progress, caught, envVars, cache, runVars, attempt, calls, fails,
                 ghostVars, lastResp, thrown, lookup>>

\* ---- the provider call wrapped in retryWithBackoff ----
\* a retry loop that does not return on success and waits for another attempt
ProviderResolvesAndRetries(f, r) ==
  /\ runPc = "await"
  /\ pc[f] = "inflight"
  /\ lastResp' = [lastResp EXCEPT ![f] = JsString(r)]
  /\ IF attempt[f] = retries
       THEN /\ out' = [out EXCEPT ![f] = OkOut(r, FALSE)]
            /\ pc' = [pc EXCEPT ![f] = "settled"]
       ELSE /\ pc' = [pc EXCEPT ![f] = "backoff"]
            /\ out' = out
  /\ UNCHANGED <<config, nFiles, codebase, backoff, engine, estimate, single, inputTokens, tokenUsage, progress, caught, envVars, cache, files, runVars, attempt, calls,
                 fails, ghostVars, overtaken, thrown, lookup>>

\* the invocation resolves with content r: store to the cache, clear the
\* content, return the result
ProviderResolves(f, r) ==
  /\ runPc = "await"
  /\ pc[f] = "inflight"
  /\ lastResp' = [lastResp EXCEPT ![f] = JsString(r)]
  /\ \E metadata \in (IF budget.metadata THEN Metadatas ELSE {NoMetadata}) :
       tokenUsage' = CountResponse(tokenUsage, inputTokens[f], estimateTokens(r, metadata))
  /\ IF cacheEnabled
       THEN \E e \in FaultsOf(StoreFaults) :
            LET S == setCachedExplanation(files[f].path, config, r, e)
            IN /\ cache' = IF S.written THEN [cache EXCEPT ![files[f].path] = S.rec]
                                         ELSE cache
               /\ caught' = [caught EXCEPT ![f].store = S.caught]
       ELSE UNCHANGED <<cache, caught>>
  /\ files' = ClearContent(f)
  /\ out' = [out EXCEPT ![f] = OkOut(r, FALSE)]
  /\ pc' = [pc EXCEPT ![f] = "settled"]
  /\ overtaken' = (overtaken \/ Overtakes(f))
  /\ UNCHANGED <<config, nFiles, codebase, backoff, engine, estimate, single, inputTokens, progress, envVars, runVars, attempt, calls, fails,
                 ghostVars, thrown, lookup>>

\* the last attempt taken to be the one before index retries
LastAttemptEarly(f) == attempt[f] + 1 >= retries

\* if (i === retries) throw error
LastAttempt(f) == attempt[f] = retries

\* a retry loop that invokes the provider again at once, without the wait
ProviderRejectsAndInvokes(f) ==
  /\ runPc = "await"
  /\ pc[f] = "inflight"
  /\ ~LastAttempt(f)
  /\ fails' = [fails EXCEPT ![f] = @ + 1]
  /\ attempt' = [attempt EXCEPT ![f] = @ + 1]
  /\ calls' = [calls EXCEPT ![f] = @ + 1]
  /\ UNCHANGED <<config, nFiles, codebase, backoff, engine, estimate, single, inputTokens,
                 tokenUsage, progress, caught, envVars, cache, files, runVars, out, pc,
                 ghostVars, overtaken, lastResp, thrown, lookup>>

\* the invocation rejects and attempts remain: wait for the delay
ProviderRejects(f) ==
  /\ runPc = "await"
  /\ pc[f] = "inflight"
  /\ ~LastAttempt(f)
  /\ fails' = [fails EXCEPT ![f] = @ + 1]
  /\ backoff' = [backoff EXCEPT ![f] = Waited(@)]
  /\ pc' = [pc EXCEPT ![f] = "backoff"]
  /\ UNCHANGED <<config, nFiles, codebase, engine, estimate, single, inputTokens, tokenUsage, progress, caught, envVars, cache, files, runVars, attempt, out,
                 calls, ghostVars, overtaken, lastResp, thrown, lookup>>

\* the result of a task whose retries are exhausted: explainFile returns the
\* error text, the request-batching task returns { success: false }
ExhaustedOut == IF requestBatching THEN FailOut ELSE OkOut(ErrorText, FALSE)

\* a last rejection whose error text is stored like a response
ProviderRejectsLastAndStores(f) ==
  /\ runPc = "await"
  /\ pc[f] = "inflight"
  /\ LastAttempt(f)
  /\ fails' = [fails EXCEPT ![f] = @ + 1]
  /\ thrown' = [thrown EXCEPT ![f] = TRUE]
  /\ cache' = IF cacheEnabled
                THEN [cache EXCEPT ![files[f].path] =
                        setCachedExplanation(files[f].path, config, ErrorText, "none").rec]
                ELSE cache
  /\ files' = ClearContent(f)
  /\ out' = [out EXCEPT ![f] = ExhaustedOut]
  /\ pc' = [pc EXCEPT ![f] = "settled"]
  /\ overtaken' = (overtaken \/ Overtakes(f))
  /\ UNCHANGED <<config, nFiles, codebase, backoff, engine, estimate, single, inputTokens, tokenUsage, progress, caught, envVars, runVars, attempt, calls,
                 ghostVars, lastResp, lookup>>

\* the invocation rejects on the last attempt: retryWithBackoff throws
ProviderRejectsLast(f) ==
  /\ runPc = "await"
  /\ pc[f] = "inflight"
  /\ LastAttempt(f)
  /\ fails' = [fails EXCEPT ![f] = @ + 1]
  /\ thrown' = [thrown EXCEPT ![f] = TRUE]
  /\ files' = ClearContent(f)
  /\ out' = [out EXCEPT ![f] = ExhaustedOut]
  /\ pc' = [pc EXCEPT ![f] = "settled"]
  /\ overtaken' = (overtaken \/ Overtakes(f))
  /\ UNCHANGED <<config, nFiles, codebase, backoff, engine, estimate, single, inputTokens, tokenUsage, progress, caught, envVars, cache, runVars, attempt, calls,
                 ghostVars, lastResp, lookup>>

\* the delay has elapsed: next iteration of the retry loop, next invocation
BackoffElapsed(f) ==
  /\ runPc = "await"
  /\ pc[f] = "backoff"
  /\ attempt' = [attempt EXCEPT ![f] = @ + 1]
  /\ backoff' = [backoff EXCEPT ![f] = Doubled(@)]
  /\ calls' = [calls EXCEPT ![f] = @ + 1]
  /\ pc' = [pc EXCEPT ![f] = "inflight"]
  /\ UNCHANGED <<config, nFiles, codebase, engine, estimate, single, inputTokens, tokenUsage, progress, caught, envVars, cache, files, runVars, out, fails,
                 ghostVars, overtaken, lastResp, thrown, lookup>>

\* ---- the progress callback ----
\* Math.round((completed / total) * 100), for 0 <= completed <= total, total > 0;
\* the double computation agrees with this rational one for every total < 40
Percent(done, total) == (200 * done + total) \div (2 * total)

\* progressCallback(id, completed, total, progress, cached, false)
progressCallback(id, done, isCached) ==
  [id |-> id, completed |-> done, total |-> nFiles, percent |-> Percent(done, nFiles),
   cached |-> isCached, isStarting |-> FALSE]

\* `file-${globalIndex}`
FileDashIndex(k) == "file-" \o ToString(k)

\* the call made for task f by the loop over the batch results: a success is
\* named by its path; a failure by its path in processFilesInBatches and by
\* `file-${globalIndex}` in processFilesWithRequestBatching
NotifySettled(f, done) ==
  IF out[f].kind = "ok"
    THEN progressCallback(FilePath(files[f].path), done,
                          IF requestBatching THEN FALSE ELSE out[f].cached)
    ELSE progressCallback(IF requestBatching THEN FileDashIndex(globalIndex(f))
                                             ELSE FilePath(files[f].path),
                          done, FALSE)

\* the elements of a set of indices in increasing order
InOrder(S) ==
  CHOOSE sq \in [1..Cardinality(S) -> S] :
    \A a, b \in 1..Cardinality(S) : a < b => sq[a] < sq[b]

\* ---- await Promise.allSettled(batchPromises) and the loop over its results ----
batchData == {f \in batch : out[f].kind # "written"}

BatchSettled ==
  /\ runPc = "await"
  /\ \A f \in batch : pc[f] = "settled"
  /\ results' = [k \in Files |->
                   IF \E f \in batchData : globalIndex(f) = k
                     THEN SlotOf(CHOOSE f \in batchData : globalIndex(f) = k)
                     ELSE results[k]]
  /\ completed' = completed + Cardinality(batchData)
  /\ progress' = progress \o [k \in 1..Cardinality(batchData) |->
                               NotifySettled(InOrder(batchData)[k], completed + k)]
  /\ i' = NextIndex
  /\ runPc' = "loop"
  /\ UNCHANGED <<config, nFiles, codebase, backoff, engine, estimate, single, inputTokens, tokenUsage, caught, envVars, cache, files, runs, pc, attempt, out,
                 calls, fails, ghostVars, overtaken, lastResp, thrown, lookup>>

\* ---- processFilesWithRequestBatching: the preparation loop of a batch ----
\* for (let j = 0; j < batch.length; j++): the files of the batch are
\* prepared one after the other, in index order
Preparing(f) ==
  /\ runPc = "prepare"
  /\ f \in batch
  /\ \A g \in batch : g < f => pc[g] \in {"ready", "settled"}

\* cache check of the preparation loop; a hit writes the slot at once
PrepareCacheCheck(f) ==
  /\ Preparing(f)
  /\ pc[f] = "queued"
  /\ IF cacheEnabled
       THEN \E e \in FaultsOf(LookupFaults) :
            LET p == files[f].path
                L == getCachedExplanation(p, e)
            IN /\ cache' = [cache EXCEPT ![p] = L.rec]
               /\ lookup' = [lookup EXCEPT ![f] = LookupRecord(L)]
               /\ caught' = [caught EXCEPT ![f].lookup = L.caught]
               /\ IF Truthy(L.ret)
                    THEN /\ results' = [results EXCEPT ![globalIndex(f)] =
                                          ResultSlot(files[f].path, L.ret.text, TRUE)]
                         /\ tokenUsage' = CountHit(tokenUsage)
                         /\ completed' = completed + 1
                         /\ progress' = Append(progress,
                              progressCallback(FilePath(files[f].path), completed + 1, TRUE))
                         /\ out' = [out EXCEPT ![f] = WrittenOut]
                         /\ pc' = [pc EXCEPT ![f] = "settled"]
                    ELSE /\ pc' = [pc EXCEPT ![f] = "prompt"]
                         /\ UNCHANGED <<results, completed, progress, tokenUsage, out>>
       ELSE /\ pc' = [pc EXCEPT ![f] = "prompt"]
            /\ UNCHANGED <<cache, lookup, caught, results, completed, progress,
                           tokenUsage, out>>
  /\ UNCHANGED <<config, nFiles, codebase, backoff, engine, estimate, single, inputTokens, envVars, files, runPc, runs, i, attempt, calls,
                 fails, ghostVars, overtaken, lastResp, thrown>>

\* const prompt = await this.buildPrompt(file); batchData.push(...)
PreparePrompt(f) ==
  /\ Preparing(f)
  /\ pc[f] = "prompt"
  /\ LET tokens == estimateTokens(buildPrompt(files[f].content), NoMetadata)
     IN /\ inputTokens' = [inputTokens EXCEPT ![f] = tokens]
        /\ tokenUsage' = CountPrompt(tokenUsage, tokens)
  /\ pc' = [pc EXCEPT ![f] = "ready"]
  /\ UNCHANGED <<config, nFiles, codebase, backoff, engine, estimate, single, progress, caught, envVars, cache, files, runVars, attempt, out,
                 calls, fails, ghostVars, overtaken, lastResp, thrown, lookup>>

\* buildPrompt rejects inside the preparation loop: nothing catches it and
\* processFilesWithRequestBatching rejects
PreparePromptRejects(f) ==
  /\ Preparing(f)
  /\ pc[f] = "prompt"
  /\ pc' = [pc EXCEPT ![f] = "settled"]
  /\ out' = [out EXCEPT ![f] = FailOut]
  /\ runPc' = "rejected"
  /\ UNCHANGED <<config, nFiles, codebase, backoff, engine, estimate, single, inputTokens, tokenUsage, progress, caught, envVars, cache, files, runs, i, results,
                 completed, attempt, calls, fails, ghostVars, overtaken, lastResp, thrown,
                 lookup>>

Prepared == \A f \in batch : pc[f] \in {"ready", "settled"}

\* if (batchData.length > 0): batchData.map(...) starts every request
InvokeBatch ==
  /\ runPc = "prepare"
  /\ Prepared
  /\ \E f \in batch : pc[f] = "ready"
  /\ pc' = [f \in Files |-> IF f \in batch /\ pc[f] = "ready" THEN "inflight" ELSE pc[f]]
  /\ attempt' = [f \in Files |-> IF f \in batch /\ pc[f] = "ready" THEN 0 ELSE attempt[f]]
  /\ backoff' = [f \in Files |-> IF f \in batch /\ pc[f] = "ready" THEN retryWithBackoff
                                                                   ELSE backoff[f]]
  /\ calls' = [f \in Files |-> IF f \in batch /\ pc[f] = "ready" THEN calls[f] + 1 ELSE calls[f]]
  /\ runPc' = "await"
  /\ UNCHANGED <<config, nFiles, codebase, engine, estimate, single, inputTokens, tokenUsage, progress, caught, envVars, cache, files, runs, i, results,
                 completed, out, fails, ghostVars, overtaken, lastResp, thrown, lookup>>

\* batchData is empty: straight to the next batch
SkipBatch ==
  /\ runPc = "prepare"
  /\ Prepared
  /\ ~(\E f \in batch : pc[f] = "ready")
  /\ i' = NextIndex
  /\ runPc' = "loop"
  /\ UNCHANGED <<config, nFiles, codebase, backoff, engine, estimate, single, inputTokens, tokenUsage, progress, caught, envVars, cache, files, runs, results, completed,
                 pc, attempt, out, calls, fails, ghostVars, overtaken, lastResp, thrown,
                 lookup>>

\* ---- generateExplanations(analysis, progressCallback), analysis one descriptor ----
\* the file of the single-file call: the first of the files on disk
SinglePath == 0

\* progressCallback(analysis.path || 'single-file', 1, 1, 100, result.cached, false)
singleCallback(isCached) ==
  [id |-> FilePath(SinglePath), completed |-> 1, total |-> 1, percent |-> 100,
   cached |-> isCached, isStarting |-> FALSE]

\* the call starts: the counters are reset and explainFile(analysis) is called
generateExplanationsSingle ==
  /\ engine = "constructed"
  /\ config.mode \notin CodebaseModes
  /\ codebase.pc \in {"idle", "returned", "rejected"}
  /\ single.pc \in {"idle", "returned", "rejected"}
  /\ single.runs < budget.single
  /\ tokenUsage' = ResetUsage
  /\ single' = [NoSingle EXCEPT !.pc = "start", !.runs = single.runs + 1,
                                !.content = disk[SinglePath].content]
  /\ UNCHANGED <<config, nFiles, codebase, engine, estimate, envVars, cache, runVars, taskVars, ghostVars>>

\* explainFile: the cache lookup; on a hit the call returns the stored explanation
SingleLookup ==
  /\ single.pc = "start"
  /\ IF cacheEnabled
       THEN \E e \in FaultsOf(LookupFaults) :
            LET L == getCachedExplanation(SinglePath, e)
            IN /\ cache' = [cache EXCEPT ![SinglePath] = L.rec]
               /\ IF Truthy(L.ret)
                    THEN /\ tokenUsage' = CountHit(tokenUsage)
                         /\ single' = [single EXCEPT !.pc = "returned",
                                         !.result = OkOut(L.ret.text, TRUE),
                                         !.progress = <<singleCallback(TRUE)>>]
                    ELSE /\ single' = [single EXCEPT !.pc = "prompt"]
                         /\ UNCHANGED tokenUsage
       ELSE /\ single' = [single EXCEPT !.pc = "prompt"]
            /\ UNCHANGED <<cache, tokenUsage>>
  /\ UNCHANGED <<config, nFiles, codebase, engine, estimate, envVars, runVars, taskVars, ghostVars>>

\* explainFile: buildPrompt resolves, the first provider invocation is made
SinglePrompt ==
  /\ single.pc = "prompt"
  /\ LET tokens == estimateTokens(buildPrompt(single.content), NoMetadata)
     IN /\ tokenUsage' = CountPrompt(tokenUsage, tokens)
        /\ single' = [single EXCEPT !.pc = "inflight", !.inputTokens = tokens,
                                    !.attempt = 0, !.calls = 1,
                                    !.backoff = retryWithBackoff]
  /\ UNCHANGED <<config, nFiles, codebase, engine, estimate, envVars, cache, runVars, taskVars, ghostVars>>

\* explainFile: buildPrompt rejects, and so does generateExplanations
SinglePromptRejects ==
  /\ single.pc = "prompt"
  /\ single' = [single EXCEPT !.pc = "rejected"]
  /\ UNCHANGED <<config, nFiles, codebase, engine, estimate, envVars, cache, tokenUsage, runVars, taskVars, ghostVars>>

\* the invocation resolves with content r: count, store, return, notify
SingleResolves(r) ==
  /\ single.pc = "inflight"
  /\ \E metadata \in (IF budget.metadata THEN Metadatas ELSE {NoMetadata}) :
       tokenUsage' = CountResponse(tokenUsage, single.inputTokens, estimateTokens(r, metadata))
  /\ IF cacheEnabled
       THEN \E e \in FaultsOf(StoreFaults) :
            LET S == setCachedExplanation(SinglePath, config, r, e)
            IN cache' = IF S.written THEN [cache EXCEPT ![SinglePath] = S.rec] ELSE cache
       ELSE UNCHANGED cache
  /\ single' = [single EXCEPT !.pc = "returned", !.content = NullContent,
                              !.result = OkOut(r, FALSE),
                              !.progress = <<singleCallback(FALSE)>>]
  /\ UNCHANGED <<config, nFiles, codebase, engine, estimate, envVars, runVars, taskVars, ghostVars>>

\* the invocation rejects and attempts remain: wait for the delay
SingleRejects ==
  /\ single.pc = "inflight"
  /\ single.attempt # retries
  /\ single' = [single EXCEPT !.pc = "backoff", !.fails = @ + 1,
                              !.backoff = Waited(@)]
  /\ UNCHANGED <<config, nFiles, codebase, engine, estimate, envVars, cache, tokenUsage, runVars, taskVars, ghostVars>>

\* the delay has elapsed: the next invocation
SingleBackoffElapsed ==
  /\ single.pc = "backoff"
  /\ single' = [single EXCEPT !.pc = "inflight", !.attempt = @ + 1, !.calls = @ + 1,
                              !.backoff = Doubled(@)]
  /\ UNCHANGED <<config, nFiles, codebase, engine, estimate, envVars, cache, tokenUsage, runVars, taskVars, ghostVars>>

\* the invocation rejects on the last attempt: explainFile catches the error
\* and returns the error text
SingleRejectsLast ==
  /\ single.pc = "inflight"
  /\ single.attempt = retries
  /\ single' = [single EXCEPT !.pc = "returned", !.fails = @ + 1,
                              !.content = NullContent,
                              !.result = OkOut(ErrorText, FALSE),
                              !.progress = <<singleCallback(FALSE)>>]
  /\ UNCHANGED <<config, nFiles, codebase, engine, estimate, envVars, cache, tokenUsage, runVars, taskVars, ghostVars>>

Next ==
  \/ \E f \in Files, c \in Contents : \E m \in MtimesAfterWrite(f) : ExternalWrite(f, c, m)
  \/ \E f \in Files : ForeignStore(f)
  \/ generateExplanations
  \/ NextBatch
  \/ ReturnResults
  \/ \E f \in Files : ExplainFileLookup(f)
  \/ \E f \in Files : ExplainFilePrompt(f)
  \/ \E f \in Files : ExplainFilePromptRejects(f)
  \/ \E f \in Files, r \in Responses : ProviderResolves(f, r)
  \/ \E f \in Files : ProviderRejects(f)
  \/ \E f \in Files : ProviderRejectsLast(f)
  \/ \E f \in Files : BackoffElapsed(f)
  \/ BatchSettled
  \/ \E f \in Files : PrepareCacheCheck(f)
  \/ \E f \in Files : PreparePrompt(f)
  \/ \E f \in Files : PreparePromptRejects(f)
  \/ InvokeBatch
  \/ SkipBatch
  \/ generateExplanationsSingle
  \/ SingleLookup
  \/ SinglePrompt
  \/ SinglePromptRejects
  \/ \E r \in Responses : SingleResolves(r)
  \/ SingleRejects
  \/ SingleBackoffElapsed
  \/ SingleRejectsLast

Spec == Init /\ [][Next]_vars

FailingSpec == InitFailing /\ [][Next]_vars

OverlappingSpec == InitOverlapping /\ [][Next]_vars

\* ---- new AIEngine(config) ----
\* AllRound: one file and everything the pipeline can meet: a record of an
\* earlier process, writes of other programs, another client's store.
AllRound ==
  /\ config \in Configs /\ Unvaried
  /\ config.concurrency = 0 /\ config.attempts = 1 /\ config.cache
  /\ nFiles = 1
  /\ cache \in [Files -> {NoRecord, PriorRecord("a")}]
  /\ other = [mode |-> config.mode, level |-> config.level, provider |-> config.provider,
              model |-> config.model, apiKey |-> "k2", baseUrl |-> ""]
  /\ budget = [runs |-> 1, writes |-> MaxEdits, stores |-> 1, faulty |-> FALSE, metadata |-> FALSE, single |-> 0]

\* the configs a caller may hand to the constructor
ConstructorConfigs ==
  [provider : PROVIDERS \cup {Absent, Unsupported}, concurrency : {0}, attempts : {1},
   cache : BOOLEAN, mode : {DefaultMode}, level : {"expert"}, model : {"m"},
   apiKey : {"", "k1"}, baseUrl : {""}, delay : {NoDelay}]

\* Constructing: any provider identifier or none, with and without an API key
Constructing ==
  /\ config \in ConstructorConfigs
  /\ nFiles = 1
  /\ cache \in [Files -> {NoRecord, PriorRecord("a")}]
  /\ other = NoOther
  /\ budget = [runs |-> 1, writes |-> 0, stores |-> 0, faulty |-> FALSE, metadata |-> FALSE, single |-> 1]

\* the caller has a config and has not yet called the constructor
InitConstructing ==
  /\ NoCall /\ (AllRound \/ Alone(FALSE) \/ Constructing)
  /\ engine = "none" /\ Fresh

\* constructor(config): the fields are set, then the API key is validated
\* and setupModel() creates the model instance
Construct ==
  /\ engine = "none"
  /\ engine' = IF constructorThrows THEN "threw" ELSE "constructed"
  /\ tokenUsage' = ZeroUsage
  /\ UNCHANGED <<config, nFiles, codebase, estimate, envVars, cache, single, runVars, taskVars, ghostVars>>

ConstructingSpec == InitConstructing /\ [][Construct \/ Next]_vars

\* ---- estimateTokens(text, metadata) called on its own ----
RECURSIVE Chars(_)
\* a text of n characters
Chars(n) == IF n = 0 THEN "" ELSE "a" \o Chars(n - 1)

Texts == {Chars(n) : n \in 0..MaxText}

\* usage metadata with each field a number or not a number (-1)
EstimateMetadatas ==
  [prompt_tokens : {-1, 0, 2}, completion_tokens : {-1, 0, 3}, total_tokens : {-1, 0, 7}]

\* an engine of any provider and a caller about to estimate a text
InitEstimate ==
  /\ Alone(FALSE) /\ Constructed
  /\ ~config.cache /\ cache = [f \in Files |-> NoRecord]
  /\ estimate \in [text : Texts, metadata : EstimateMetadatas, done : {FALSE}, result : {0}]

Estimate ==
  /\ engine = "constructed"
  /\ ~estimate.done
  /\ estimate' = [estimate EXCEPT !.done = TRUE,
                                  !.result = estimateTokens(estimate.text, estimate.metadata)]
  /\ UNCHANGED <<config, nFiles, codebase, engine, envVars, cache, tokenUsage, single, runVars, taskVars, ghostVars>>

EstimateSpec == InitEstimate /\ [][Estimate]_vars

\* ---- generateExplanations in a codebase-level mode ----
\* if (mode === 'architecture' || mode === 'arch' || mode === 'onboarding')
\*   return [await this.explainCodebaseWithAISummaries(analysis, progressCallback)]
explainCodebaseWithAISummaries ==
  /\ engine = "constructed"
  /\ codebase.pc \in {"idle", "returned", "rejected"}
  /\ config.mode \in CodebaseModes
  /\ runs + codebase.runs < budget.runs
  /\ tokenUsage' = ResetUsage
  /\ files' = [f \in Files |-> [path |-> f, content |-> disk[f].content]]
  /\ progress' = <<>>
  /\ codebase' = [NoCodebase EXCEPT !.pc = "phase1", !.runs = codebase.runs + 1,
                                    !.entryMode = config.mode,
                                    !.keyFiles = codebase.keyFiles,
                                    !.strayed = codebase.strayed,
                                    !.records = codebase.records,
                                    !.synthesized =
                                       codebase.synthesized \cup
                                         (IF codebase.stores = 1 THEN {codebase.path}
                                          ELSE {})]
  /\ UNCHANGED <<config, nFiles, engine, estimate, single, envVars, cache, runVars, pc,
                 attempt, out, calls, fails, overtaken, lastResp, thrown, lookup, caught,
                 inputTokens, backoff, ghostVars>>

codebaseFrame == <<nFiles, engine, estimate, single, envVars, runVars, pc, attempt, out,
                   calls, fails, overtaken, lastResp, thrown, lookup, caught,
                   inputTokens, backoff, ghostVars>>

\* the tasks whose processFn is started together: one batch of
\* processFilesInBatches; with request batching each processFn is awaited
\* before the next one is called
summaryBatch ==
  IF requestBatching THEN slice(nFiles, codebase.i, codebase.i + 1)
  ELSE slice(nFiles, codebase.i, codebase.i + concurrency)

\* processFn up to the first await of explainFile, for the tasks of a batch
\* in index order: const originalMode = this.config.mode;
\* this.config.mode = MODES.SUMMARY; then explainFile computes the key of its
\* lookup, or, with the cache disabled, buildPrompt chooses its template
LaunchSummaries ==
  /\ codebase.pc = "phase1"
  /\ codebase.launched = {}
  /\ codebase.i < nFiles
  /\ config' = [config EXCEPT !.mode = SUMMARY]
  /\ codebase' =
       [codebase EXCEPT
          !.launched = summaryBatch,
          !.task = [f \in Files |->
                      IF f \in summaryBatch
                        THEN [NoTask EXCEPT
                                !.pc = IF cacheEnabled THEN "lookup" ELSE "prompt",
                                !.originalMode =
                                   IF \E g \in summaryBatch : g < f THEN SUMMARY
                                   ELSE config.mode,
                                !.seen = IF cacheEnabled
                                           THEN [NoTask.seen EXCEPT !.lookup = SUMMARY]
                                           ELSE [NoTask.seen EXCEPT !.prompt = SUMMARY]]
                        ELSE codebase.task[f]]]
  /\ UNCHANGED <<codebaseFrame, cache, files, tokenUsage, progress>>

\* the descriptor after the task: explainFile clears the content when it
\* has called the provider; the task wrapper of processFilesInBatches clears
\* it in every case
SummaryContent(f, invoked) ==
  IF invoked \/ ~requestBatching THEN ClearContent(f) ELSE files

\* the lookup of a phase-1 task resolves. Hit: explainFile returns, processFn
\* restores this.config.mode = originalMode and returns the summary. Miss:
\* buildPrompt is called and chooses its template by this.config.mode.
SummaryLookup(f) ==
  /\ codebase.pc = "phase1"
  /\ codebase.task[f].pc = "lookup"
  /\ LET p == files[f].path
         L == getCachedExplanation(p, "none")
     IN /\ cache' = [cache EXCEPT ![p] = L.rec]
        /\ IF Truthy(L.ret)
             THEN /\ tokenUsage' = CountHit(tokenUsage)
                  /\ files' = SummaryContent(f, FALSE)
                  /\ config' = [config EXCEPT !.mode = codebase.task[f].originalMode]
                  /\ codebase' = [codebase EXCEPT
                                    !.task[f].pc = "settled",
                                    !.task[f].slot = ResultSlot(p, L.ret.text, TRUE)]
             ELSE /\ codebase' = [codebase EXCEPT !.task[f].pc = "prompt",
                                                  !.task[f].seen.prompt = config.mode]
                  /\ UNCHANGED <<tokenUsage, files, config>>
  /\ UNCHANGED <<codebaseFrame, progress>>

\* buildPrompt resolves; retryWithBackoff makes its first provider invocation
SummaryPrompt(f) ==
  /\ codebase.pc = "phase1"
  /\ codebase.task[f].pc = "prompt"
  /\ tokenUsage' = CountPrompt(tokenUsage,
                               estimateTokens(buildPrompt(files[f].content), NoMetadata))
  /\ codebase' = [codebase EXCEPT !.task[f].pc = "inflight", !.task[f].calls = 1]
  /\ UNCHANGED <<codebaseFrame, config, cache, files, progress>>

\* buildPrompt rejects (the prompt template cannot be read): explainFile and
\* processFn reject, the mode is not restored, the slot is null
SummaryPromptRejects(f) ==
  /\ budget.faulty
  /\ codebase.pc = "phase1"
  /\ codebase.task[f].pc = "prompt"
  /\ files' = SummaryContent(f, FALSE)
  /\ codebase' = [codebase EXCEPT !.task[f].pc = "settled", !.task[f].slot = NullSlot]
  /\ UNCHANGED <<codebaseFrame, config, cache, tokenUsage, progress>>

\* the provider resolves with r: the store computes its key from this.config
\* as it is now (a record under the key of another mode than summary is a
\* record of another key), the content is cleared, processFn restores the mode
SummaryResolves(f, r) ==
  /\ codebase.pc = "phase1"
  /\ codebase.task[f].pc = "inflight"
  /\ LET p == files[f].path
         tokens == estimateTokens(buildPrompt(files[f].content), NoMetadata)
         S == setCachedExplanation(p, config, r, "none")
     IN /\ tokenUsage' = CountResponse(tokenUsage, tokens, estimateTokens(r, NoMetadata))
        /\ cache' = IF cacheEnabled /\ config.mode = SUMMARY
                      THEN [cache EXCEPT ![p] = S.rec] ELSE cache
        /\ codebase' = [codebase EXCEPT
                          !.task[f].pc = "settled",
                          !.task[f].seen.store = IF cacheEnabled THEN config.mode ELSE "",
                          !.task[f].slot = ResultSlot(p, r, FALSE),
                          !.strayed = IF cacheEnabled /\ config.mode # SUMMARY
                                        THEN @ \cup {getCacheKey(p, config)} ELSE @]
  /\ files' = SummaryContent(f, TRUE)
  /\ config' = [config EXCEPT !.mode = codebase.task[f].originalMode]
  /\ UNCHANGED <<codebaseFrame, progress>>

\* the provider rejects: retryWithBackoff waits and invokes it again, or,
\* after the last attempt, throws; explainFile catches the error and returns
\* the error text, which becomes the summary
SummaryRejects(f) ==
  /\ codebase.pc = "phase1"
  /\ codebase.task[f].pc = "inflight"
  /\ IF codebase.task[f].calls <= retries
       THEN /\ codebase' = [codebase EXCEPT !.task[f].calls = @ + 1]
            /\ UNCHANGED <<files, config>>
       ELSE /\ codebase' = [codebase EXCEPT
                              !.task[f].pc = "settled",
                              !.task[f].slot = ResultSlot(files[f].path, ErrorText, FALSE)]
            /\ files' = SummaryContent(f, TRUE)
            /\ config' = [config EXCEPT !.mode = codebase.task[f].originalMode]
  /\ UNCHANGED <<codebaseFrame, cache, tokenUsage, progress>>

\* every task of the batch has settled: the slots are written, the progress
\* callback is called for each task in index order, the loop goes on; after the last batch
\* explainCodebaseFromSummaries is called
SummariesSettled ==
  /\ codebase.pc = "phase1"
  /\ codebase.launched # {}
  /\ \A f \in codebase.launched : codebase.task[f].pc = "settled"
  /\ LET lo == codebase.i
     IN progress' = progress \o
          [k \in 1..Cardinality(codebase.launched) |->
             progressCallback(FilePath(files[lo + k - 1].path), codebase.completed + k,
                              codebase.task[lo + k - 1].slot.cached)]
  /\ LET next == codebase.i + (IF requestBatching THEN 1 ELSE concurrency)
     IN codebase' = [codebase EXCEPT
                       !.launched = {},
                       !.completed = @ + Cardinality(codebase.launched),
                       !.i = next,
                       !.pc = IF next < nFiles THEN "phase1" ELSE "phase2"]
  /\ UNCHANGED <<codebaseFrame, config, cache, files, tokenUsage>>

\* fileSummaries.find(s => s.relativePath === file.relativePath)?.summary,
\* over the summaries that are not null
fileSummary(f) ==
  IF codebase.task[f].slot.kind = "result"
    THEN JsString(codebase.task[f].slot.explanation) ELSE JsNull

\* buildCodebaseSummary throws a TypeError: extractPurpose is called with a
\* null content for a file without a truthy summary, or
\* file.content.substring is called on the null content of a key file
buildCodebaseSummaryThrows ==
  \E f \in Files :
    /\ files[f].content = NullContent
    /\ ~Truthy(fileSummary(f)) \/ f \in codebase.keyFiles

\* buildCodebaseSummary over the first n descriptors: for each its summary,
\* or what extractPurpose gives for a content without 'class ', 'function '
\* or 'def ', and the content of a key file
RECURSIVE buildCodebaseSummary(_)
buildCodebaseSummary(n) ==
  IF n = 0 THEN "# Codebase Summary"
  ELSE LET f == n - 1
       IN buildCodebaseSummary(f)
            \o " - " \o (IF Truthy(fileSummary(f)) THEN fileSummary(f).text
                         ELSE "Contains code for module")
            \o (IF f \in codebase.keyFiles THEN " ### " \o files[f].content ELSE "")

\* path: (mode === 'architecture' || mode === 'arch') ? 'project-architecture'
\*                                                    : 'developer-onboarding'
syntheticPath ==
  IF config.mode \in {"architecture", "arch"} THEN "project-architecture"
  ELSE "developer-onboarding"

\* getCachedExplanation(codebaseAnalysis.path, config): without a record file
\* it returns null; with one, fs.stat of the synthetic path, which names no
\* file, throws and the catch block returns null
getCachedSynthesis(sp) ==
  LET rec == codebase.records[sp]
  IN IF ~rec.exists THEN Returned(JsNull, 0, rec) ELSE Caught(0, rec)

\* explainCodebaseFromSummaries up to its provider call: the summary is
\* built, the synthetic descriptor gets its path from this.config.mode, the
\* cache is looked up, the prompt is built
Synthesize ==
  /\ codebase.pc = "phase2"
  /\ IF buildCodebaseSummaryThrows
       THEN /\ codebase' = [codebase EXCEPT !.pc = "rejected", !.error = "TypeError"]
            /\ UNCHANGED tokenUsage
       ELSE LET L == getCachedSynthesis(syntheticPath)
                looked == IF cacheEnabled THEN 1 ELSE 0
            IN IF cacheEnabled /\ Truthy(L.ret)
                 THEN /\ tokenUsage' = CountHit(tokenUsage)
                      /\ codebase' = [codebase EXCEPT
                                        !.pc = "returned", !.path = syntheticPath,
                                        !.summary = buildCodebaseSummary(nFiles),
                                        !.looked = looked,
                                        !.result = <<ResultSlot(syntheticPath, L.ret.text, TRUE)>>]
                 ELSE /\ codebase' = [codebase EXCEPT
                                        !.pc = "prompt", !.path = syntheticPath,
                                        !.summary = buildCodebaseSummary(nFiles),
                                        !.looked = looked]
                      /\ UNCHANGED tokenUsage
  /\ UNCHANGED <<codebaseFrame, config, cache, files, progress>>

\* buildPrompt resolves; retryWithBackoff makes its first provider invocation
SynthesisPrompt ==
  /\ codebase.pc = "prompt"
  /\ tokenUsage' = CountPrompt(tokenUsage,
                               estimateTokens(buildPrompt(codebase.summary), NoMetadata))
  /\ codebase' = [codebase EXCEPT !.pc = "inflight", !.calls = 1]
  /\ UNCHANGED <<codebaseFrame, config, cache, files, progress>>

\* buildPrompt rejects outside the try block: the call rejects
SynthesisPromptRejects ==
  /\ budget.faulty
  /\ codebase.pc = "prompt"
  /\ codebase' = [codebase EXCEPT !.pc = "rejected", !.error = "prompt"]
  /\ UNCHANGED <<codebaseFrame, config, cache, files, tokenUsage, progress>>

\* the provider resolves with r: the store is called with the synthetic
\* path, fs.stat throws inside it and its catch block writes nothing; the
\* call returns the one-element list
SynthesisResolves(r) ==
  /\ codebase.pc = "inflight"
  /\ LET S == setCachedExplanation(codebase.path, config, r, "stat")
     IN codebase' = [codebase EXCEPT
                       !.pc = "returned",
                       !.stores = IF cacheEnabled THEN 1 ELSE 0,
                       !.records = IF cacheEnabled /\ S.written
                                     THEN [@ EXCEPT ![codebase.path] = S.rec] ELSE @,
                       !.result = <<ResultSlot(codebase.path, r, FALSE)>>]
  /\ tokenUsage' = CountResponse(tokenUsage,
                                 estimateTokens(buildPrompt(codebase.summary), NoMetadata),
                                 estimateTokens(r, NoMetadata))
  /\ UNCHANGED <<codebaseFrame, config, cache, files, progress>>

\* the provider rejects: another attempt, or, after the last one, the catch
\* block returns `Error generating ${this.config.mode} analysis: ${error.message}`
\* in the one-element list
SynthesisRejects ==
  /\ codebase.pc = "inflight"
  /\ IF codebase.calls <= retries
       THEN codebase' = [codebase EXCEPT !.calls = @ + 1]
       ELSE LET text == "Error generating " \o config.mode \o " analysis: provider failure"
            IN codebase' = [codebase EXCEPT
                              !.pc = "returned",
                              !.result = <<ResultSlot(codebase.path, text, FALSE)>>]
  /\ UNCHANGED <<codebaseFrame, config, cache, files, tokenUsage, progress>>

NextCodebase ==
  \/ explainCodebaseWithAISummaries
  \/ LaunchSummaries
  \/ \E f \in Files : SummaryLookup(f)
  \/ \E f \in Files : SummaryPrompt(f)
  \/ \E f \in Files : SummaryPromptRejects(f)
  \/ \E f \in Files, r \in Responses : SummaryResolves(f, r)
  \/ \E f \in Files : SummaryRejects(f)
  \/ SummariesSettled
  \/ Synthesize
  \/ SynthesisPrompt
  \/ SynthesisPromptRejects
  \/ \E r \in Responses : SynthesisResolves(r)
  \/ SynthesisRejects

InitCodebase == NoCall /\ Codebase /\ Constructed

CodebaseSpec == InitCodebase /\ [][NextCodebase]_vars

\* every call of generateExplanations: a list, a single descriptor, a
\* codebase-level mode
EngineSpec == (Init \/ InitCodebase) /\ [][Next \/ NextCodebase]_vars

TypeOK ==
  /\ runPc \in {"idle", "loop", "prepare", "await", "returned", "rejected"}
  /\ \A f \in Files : pc[f] \in {"idle", "start", "queued", "prompt", "ready",
                                 "inflight", "backoff", "settled"}

\* ======================= properties =======================

\* number of provider invocations in flight
InFlight == Cardinality({f \in Files : pc[f] = "inflight"})

\* the batch a file index belongs to
BatchNo(f) == IF concurrency > 0 THEN f \div concurrency ELSE 0

\* every provider invocation made for f in this run failed, and f has settled
Exhausted(f) == pc[f] = "settled" /\ calls[f] > 0 /\ fails[f] = calls[f]

\* the provider call of f succeeded in this run
Succeeded(f) == pc[f] = "settled" /\ ~lastResp[f].null

C2_InFlightBounded ==
  InFlight > 0 => (InFlight <= concurrency /\ InFlight <= MAX_CONCURRENCY)

\* the barrier half of C3: a task of a later batch has not started while a
\* task of an earlier batch is unsettled
C3_Barrier ==
  \A f, g \in Files :
    (BatchNo(f) < BatchNo(g) /\ pc[g] # "idle") => pc[f] = "settled"

\* C3: no task of batch k+1 starts any step before every task of batch k has
\* settled, and the failure of one task of a batch never stops its siblings
\* from running to settlement (the run never ends with a started task unsettled).
C3_BarrierAndSiblings ==
  /\ C3_Barrier
  /\ runPc \in {"returned", "rejected"} =>
       \A g \in Files : pc[g] # "idle" => pc[g] = "settled"

C5_RetrySuccess ==
  \A f \in Files :
    Succeeded(f) =>
      /\ calls[f] = fails[f] + 1
      /\ out[f] = OkOut(lastResp[f].text, FALSE)

\* fails twice, then succeeds, with three retries allowed: three invocations
C5_Witness ==
  \E f \in Files :
    /\ Succeeded(f) /\ fails[f] = 2 /\ calls[f] = 3
    /\ config.attempts = 0 /\ DEFAULT_ATTEMPTS = 3

\* the number of attempts in force: the configured one, or the default 3
AttemptsInForce == IF config.attempts = 0 THEN 3 ELSE config.attempts

\* C6 as stated: retryWithBackoff raises the last error after exactly
\* `attempts` failed invocations (3 with the default attempts = 3).
C6_ThrowsAfterAttempts ==
  \A f \in Files : thrown[f] => calls[f] = AttemptsInForce

\* C6 amended: retryWithBackoff raises the last error after exactly
\* attempts + 1 consecutive failed invocations (4 with the default 3), and
\* not before.
C6_ThrowsAfterAttemptsPlusOne ==
  \A f \in Files :
    /\ thrown[f] => (calls[f] = AttemptsInForce + 1 /\ fails[f] = calls[f])
    /\ ~thrown[f] => fails[f] <= AttemptsInForce

\* the default attempts = 3: the error is raised after the fourth failure
C6_Witness ==
  \E f \in Files : config.attempts = 0 /\ thrown[f] /\ fails[f] = 4

\* C7: in a list run with any provider, a file whose invocations are all
\* exhausted by failures ends with a slot shaped like a success (descriptor,
\* cached = false, error text as explanation), never null.
C7_ExhaustedSlotIsErrorText ==
  runPc = "returned" =>
    \A f \in Files :
      Exhausted(f) => results[f] = ResultSlot(files[f].path, ErrorText, FALSE)

\* the slot half of C8: every file whose provider call succeeded has its own
\* response in its slot
C8_OwnResponse ==
  runPc = "returned" =>
    \A f \in Files :
      Succeeded(f) => results[f] = ResultSlot(files[f].path, lastResp[f].text, FALSE)

\* C8: whatever tasks fail or reject, a list run resolves and never rejects,
\* and every file whose provider call succeeded keeps its own response.
C8_Isolation == runPc # "rejected" /\ C8_OwnResponse

\* C9: with the cache enabled, an unchanged file and an unchanged
\* configuration, sequential explain calls (none of whose provider invocations
\* failed) invoke the provider at most once in total.
C9_Idempotent ==
  \A f \in Files :
    (config.cache /\ runs >= 2 /\ ~changed[f] /\ prevFails[f] + fails[f] = 0)
      => prevCalls[f] + calls[f] <= 1

\* the fast-path condition of file f's record: stored mtime and size equal
\* the file's current mtime and size
FastPath(f) ==
  /\ cache[files[f].path].exists
  /\ cache[files[f].path].mtime = disk[files[f].path].mtime
  /\ cache[files[f].path].fileSize = Len(disk[files[f].path].content)

\* C10: a lookup made while the record's stored mtime and size equal the
\* file's current ones returns the stored explanation, reads the file content
\* zero times, writes nothing to the cache and invokes no provider.
C10_FastPath ==
  [][\A f \in Files :
       (~lookup[f].done /\ lookup'[f].done /\ FastPath(f)) =>
         /\ lookup'[f].ret = JsString(cache[files[f].path].explanation)
         /\ lookup'[f].reads = 0
         /\ cache' = cache
         /\ calls' = calls]_vars

\* a lookup was served by the fast path: a record was found and returned
\* without a content read
C10_Witness ==
  \E f \in Files :
    /\ lookup[f].done /\ ~lookup[f].ret.null /\ lookup[f].reads = 0
    /\ lookup[f].ret.text = cache[files[f].path].explanation

\* the medium-path condition of file f's record: stored size equal to the
\* current size, stored mtime different from the current mtime, stored hash
\* equal to the SHA-256 of the current content
MediumPath(f) ==
  /\ cache[files[f].path].exists
  /\ cache[files[f].path].fileSize = Len(disk[files[f].path].content)
  /\ cache[files[f].path].mtime # disk[files[f].path].mtime
  /\ cache[files[f].path].fileHash = <<"sha256", disk[files[f].path].content>>

\* C11: a lookup made on the medium path (size equal, mtime different, hash
\* of the current content equal to the stored hash) reads the file content
\* exactly once, returns the stored explanation, rewrites the record with the
\* file's current mtime and nothing else changed, and invokes no provider.
C11_MediumPath ==
  [][\A f \in Files :
       (~lookup[f].done /\ lookup'[f].done /\ MediumPath(f)) =>
         /\ lookup'[f].ret = JsString(cache[files[f].path].explanation)
         /\ lookup'[f].reads = 1
         /\ cache' = [cache EXCEPT ![files[f].path].mtime = disk[files[f].path].mtime]
         /\ cache'[files[f].path].mtime # cache[files[f].path].mtime
         /\ calls' = calls]_vars

\* a lookup was served by the medium path: the explanation was returned
\* after one content read and the record now carries the mtime of the
\* touched file
C11_Witness ==
  \E f \in Files :
    /\ lookup[f].done /\ ~lookup[f].ret.null /\ lookup[f].reads = 1
    /\ lookup[f].ret.text = cache[files[f].path].explanation
    /\ cache[files[f].path].mtime = disk[files[f].path].mtime
    /\ disk[files[f].path].mtime > 0 /\ edits > 0

\* the record of file f holds the hash of a content other than the current one
StaleRecord(f) ==
  /\ cache[files[f].path].exists
  /\ cache[files[f].path].fileHash # <<"sha256", disk[files[f].path].content>>

\* the provider call of f resolves in this step, so that the explain call stores
StoreStep(f) == config.cache /\ pc[f] = "inflight" /\ pc'[f] = "settled" /\ ~lastResp'[f].null

\* the record a store writes: the hash, size and mtime of the file at the
\* time of the store and the new explanation, no field of an older record
FreshRecord(f) ==
  [exists |-> TRUE,
   fileHash |-> <<"sha256", disk[files[f].path].content>>,
   fileSize |-> Len(disk[files[f].path].content),
   mtime |-> disk[files[f].path].mtime,
   explanation |-> lastResp'[f].text,
   timestamp |-> Now,
   config |-> [mode |-> config.mode, level |-> config.level,
               provider |-> config.provider, model |-> config.model]]

\* the second half of C12: the explain call that follows a miss invokes the
\* provider once when the first try succeeds, and its store replaces the
\* whole record
C12_Overwrite ==
  \A f \in Files :
    StoreStep(f) =>
      /\ cache'[files[f].path] = FreshRecord(f)
      /\ fails[f] = 0 => calls'[f] = 1

\* C12 as stated: whenever the current content differs from the content whose
\* hash is stored, lookup returns a miss; the explain call that follows
\* invokes the provider exactly once (first try succeeding) and the record
\* then holds the new hash, the current mtime and the new explanation only.
C12_Invalidation ==
  [][/\ \A f \in Files :
          (~lookup[f].done /\ lookup'[f].done /\ StaleRecord(f)) => lookup'[f].ret.null
     /\ C12_Overwrite]_vars

\* C12 amended: whenever the current content differs from the content whose
\* hash is stored and the file's size or mtime differs from the stored one,
\* lookup returns a miss (with size and mtime both equal, the fast path
\* returns the stored explanation); the explain call that follows a miss
\* invokes the provider exactly once (first try succeeding) and the record
\* then holds the new hash, the current mtime and the new explanation only.
C12_InvalidationUnlessFastPath ==
  [][/\ \A f \in Files :
          (~lookup[f].done /\ lookup'[f].done /\ StaleRecord(f)) =>
             IF FastPath(f)
               THEN lookup'[f].ret = JsString(cache[files[f].path].explanation)
               ELSE lookup'[f].ret.null
     /\ C12_Overwrite]_vars

\* the file was changed after the first run stored its record: the second
\* run's lookup missed, the provider was invoked once and the record now
\* holds the hash of the new content and the new explanation
C12_Witness ==
  \E f \in Files :
    /\ config.cache /\ prevCalls[f] = 1 /\ prevFails[f] = 0 /\ changed[f]
    /\ lookup[f].done /\ lookup[f].ret.null
    /\ Succeeded(f) /\ calls[f] = 1
    /\ cache[files[f].path].fileHash = <<"sha256", disk[files[f].path].content>>
    /\ cache[files[f].path].fileHash # <<"sha256", "a">>
    /\ cache[files[f].path].explanation = lastResp[f].text

\* the fields of a config that a cached explanation depends on
RelevantFields(cfg) == <<cfg.mode, cfg.level, cfg.provider, cfg.model>>

\* the lookup of file f is made in this step and returns an explanation
LookupHit(f) == ~lookup[f].done /\ lookup'[f].done /\ ~lookup'[f].ret.null

\* C13: for a fixed path, two configs that differ in mode, level, provider or
\* model have different key strings (also when values contain '-'), so a
\* lookup never returns an explanation stored under an incompatible config.
C13_KeyInjective ==
  /\ [](\A p \in Files :
          (foreign > 0 /\ RelevantFields(config) # RelevantFields(other))
            => keyString(p, config) # keyString(p, other))
  /\ [][\A f \in Files :
          LookupHit(f) =>
            RelevantFields(cache[files[f].path].config) = RelevantFields(config)]_vars

\* C15: every record written by store has a config snapshot with exactly the
\* fields mode, level, provider and model, and two stores whose configs
\* differ only in the secret fields write the same record under the same key.
C15_NoSecrets ==
  \A p \in Files :
    /\ cache[p].exists => DOMAIN cache[p].config = {"mode", "level", "provider", "model"}
    /\ (foreign > 0 /\ RelevantFields(config) = RelevantFields(other)) =>
         /\ getCacheKey(p, config) = getCacheKey(p, other)
         /\ \A x \in Responses \cup {OtherExplanation} :
              setCachedExplanation(p, config, x, "none") = setCachedExplanation(p, other, x, "none")

\* the other client, whose config differs from the engine's in the API key
\* only, has stored its record in the file of the engine's key, and the
\* record holds the four fields
C15_Witness ==
  \E p \in Files :
    /\ foreign > 0 /\ RelevantFields(config) = RelevantFields(other)
    /\ config.apiKey # other.apiKey
    /\ cache[p].exists /\ cache[p].explanation = OtherExplanation
    /\ cache[p].config = [mode |-> other.mode, level |-> other.level,
                          provider |-> other.provider, model |-> other.model]

\* the cache manager catches an error in the lookup / in the store of f in
\* this step
LookupCaught(f) == ~caught[f].lookup /\ caught'[f].lookup
StoreCaught(f) == ~caught[f].store /\ caught'[f].store

\* C14: a lookup in which a library call fails (existence check, record
\* parse, stat or read of the source file, mtime refresh write) does not
\* throw and returns a miss; a store in which a call fails does not throw and
\* writes no record; the explain call goes on and returns its result.
C14_CacheNeverFails ==
  /\ [][\A f \in Files :
          /\ LookupCaught(f) =>
               /\ lookup'[f].done /\ lookup'[f].ret.null
               /\ cache' = cache
               /\ pc'[f] = "prompt" /\ runPc' = runPc
          /\ StoreCaught(f) =>
               /\ cache' = cache
               /\ pc'[f] = "settled" /\ runPc' = runPc
               /\ out'[f] = [kind |-> "ok", explanation |-> lastResp'[f].text,
                             cached |-> FALSE]]_vars
  /\ [](\A f \in Files :
          (runPc = "returned" /\ (caught[f].lookup \/ caught[f].store) /\ Succeeded(f))
            => results[f] = ResultSlot(files[f].path, lastResp[f].text, FALSE))

\* the run returned the provider's response for a file whose lookup found a
\* record but failed, and whose store failed too, leaving the old record
C14_Witness ==
  \E f \in Files :
    /\ runPc = "returned" /\ caught[f].lookup /\ caught[f].store
    /\ lookup[f].ret.null /\ Succeeded(f)
    /\ results[f].kind = "result" /\ results[f].explanation = lastResp[f].text
    /\ cache[files[f].path].exists
    /\ cache[files[f].path].explanation = PriorExplanation

\* the cached flag of the file at index k: that of its result, false for a
\* file without a result
CachedFlag(k) == results[k].kind = "result" /\ results[k].cached

\* C16: when a list run over N files returns, the callback was called exactly
\* once per file, naming the file by its path, with completedCount 1..N in
\* increasing order, total = N, percent = round(100 * completedCount / N),
\* the file's cached flag and isStarting = false; the last call reports N
\* and 100.
C16_ProgressOncePerFile ==
  runPc = "returned" =>
    /\ Len(progress) = nFiles
    /\ \A k \in 1..Len(progress) :
         /\ progress[k].completed = k /\ progress[k].total = nFiles
         /\ 2 * nFiles * progress[k].percent <= 200 * k + nFiles
         /\ 200 * k + nFiles < 2 * nFiles * (progress[k].percent + 1)
         /\ ~progress[k].isStarting
    /\ \A f \in Files :
         \E k \in 1..Len(progress) :
           /\ progress[k].id = "src/file" \o ToString(files[f].path) \o ".js"
           /\ progress[k].cached = CachedFlag(f)
           /\ \A m \in 1..Len(progress) : progress[m].id = progress[k].id => m = k
    /\ nFiles > 0 =>
         (progress[Len(progress)].completed = nFiles /\ progress[Len(progress)].percent = 100)

\* the files of this run served from the cache, those sent to the provider,
\* and those whose prompt could not be built
HitFiles == {f \in Files : results[f].kind = "result" /\ results[f].cached}
SentFiles == {f \in Files : calls[f] > 0}
PromptlessFiles ==
  {f \in Files : pc[f] = "settled" /\ out[f].kind = "fail" /\ calls[f] = 0}

\* what C17 says of the two counters and of the hits
C17_Counters ==
  /\ tokenUsage.cachedFiles = Cardinality(HitFiles)
  /\ tokenUsage.processedFiles = Cardinality(SentFiles)
  /\ \A f \in HitFiles : calls[f] = 0

\* C17 as stated: when a list run with the cache enabled returns, cachedFiles
\* is the number of files served from the cache, processedFiles the number
\* sent to the provider, their sum the number of files, and no cache-hit
\* file was sent to the provider.
C17_UsageCounts ==
  (runPc = "returned" /\ config.cache) =>
    /\ C17_Counters
    /\ tokenUsage.cachedFiles + tokenUsage.processedFiles = nFiles

\* C17 amended: as stated, but the sum of the two counters is the number of
\* files less those whose prompt could not be built, which are counted in
\* neither.
C17_UsageCountsButPromptless ==
  (runPc = "returned" /\ config.cache) =>
    /\ C17_Counters
    /\ tokenUsage.cachedFiles + tokenUsage.processedFiles
         = nFiles - Cardinality(PromptlessFiles)

\* two files, one served from the cache and one sent to the provider once
C17_Witness ==
  /\ runPc = "returned" /\ config.cache /\ nFiles = 2
  /\ tokenUsage.cachedFiles = 1 /\ tokenUsage.processedFiles = 1
  /\ \E f, g \in Files :
       /\ f # g /\ results[f].kind = "result" /\ results[f].cached /\ calls[f] = 0
       /\ calls[g] = 1 /\ Succeeded(g)

RECURSIVE SumOver(_, _)
SumOver(fn, S) ==
  IF S = {} THEN 0
  ELSE LET x == CHOOSE y \in S : TRUE IN fn[x] + SumOver(fn, S \ {x})

\* the output tokens counted for f in this run, for responses without usage
\* metadata: none for a file without a response or with an empty one, one
\* for the one-character response
OutputTokensOf(f) == IF Succeeded(f) /\ lastResp[f].text # "" THEN 1 ELSE 0

\* C18: when the second (or a later) of several sequential runs on one
\* engine returns, the usage summary holds the counts of that run alone:
\* its hits, its files sent to the provider, their input and output tokens.
C18_ResetEveryRun ==
  (runs >= 2 /\ runPc = "returned") =>
    /\ tokenUsage.cachedFiles = Cardinality(HitFiles)
    /\ tokenUsage.processedFiles = Cardinality(SentFiles)
    /\ tokenUsage.totalInputTokens = SumOver(inputTokens, SentFiles)
    /\ tokenUsage.totalOutputTokens = SumOver([f \in Files |-> OutputTokensOf(f)], Files)
    /\ tokenUsage.totalTokens =
         SumOver([f \in Files |-> IF Succeeded(f) THEN inputTokens[f] + OutputTokensOf(f)
                                                  ELSE 0], Files)

\* the first run sent the file to the provider; the second run was served
\* from the cache and reports one hit and nothing else
C18_Witness ==
  /\ runs = 2 /\ runPc = "returned"
  /\ \E f \in Files : prevCalls[f] >= 1 /\ calls[f] = 0
  /\ tokenUsage = [totalInputTokens |-> 0, totalOutputTokens |-> 0, totalTokens |-> 0,
                   cachedFiles |-> 1, processedFiles |-> 0]

\* C20: when a run returns, totalTokens = totalInputTokens + totalOutputTokens,
\* for every mix of hits, successes and exhausted files, with or without
\* usage metadata.
C20_TotalIsSum ==
  runPc = "returned" =>
    tokenUsage.totalTokens = tokenUsage.totalInputTokens + tokenUsage.totalOutputTokens

\* the counters as the list run's own files account for them
ListCounts ==
  /\ tokenUsage.cachedFiles = Cardinality(HitFiles)
  /\ tokenUsage.processedFiles = Cardinality(SentFiles)
  /\ tokenUsage.totalInputTokens = SumOver(inputTokens, SentFiles)

\* C19: the counts in force when a run returns are the counts of that run's
\* own files, whether or not another run on the same engine was pending
\* meanwhile: hits, files sent to the provider and their input tokens for the
\* list run; one hit or one file sent, and its input tokens, for the
\* single-file call.
C19_OwnCounts ==
  [][/\ (runPc = "loop" /\ runPc' = "returned") => ListCounts
     /\ (single.pc # "returned" /\ single'.pc = "returned") =>
          /\ tokenUsage'.cachedFiles = (IF single'.result.cached THEN 1 ELSE 0)
          /\ tokenUsage'.processedFiles = (IF single'.calls > 0 THEN 1 ELSE 0)
          /\ tokenUsage'.totalInputTokens = single'.inputTokens]_vars

\* C29: with retry.attempts configured as 0, a file whose provider fails is
\* invoked exactly once, and explainFile returns the error text as the
\* explanation with cached = false.
C29_NoRetries ==
  \A f \in Files :
    (config.attempts = 0 /\ ~requestBatching /\ Exhausted(f)) =>
      /\ calls[f] = 1
      /\ out[f] = OkOut(ErrorText, FALSE)

\* C23: the effective concurrency is min(configured-or-3, 10), never more
\* than 10, and every batch holds at most that many files.
C23_EffectiveConcurrency ==
  /\ concurrency = Min(IF config.concurrency = 0 THEN 3 ELSE config.concurrency, 10)
  /\ concurrency <= 10
  /\ runPc \in {"prepare", "await"} => Cardinality(batch) <= concurrency

\* every file of the run was sent to the provider and answered at once: no
\* cache hit, no failure of any kind
AllFresh ==
  \A f \in Files :
    pc[f] = "settled" /\ out[f].kind = "ok" /\ ~out[f].cached /\ fails[f] = 0

\* the batch in progress is the index range [b*c, min((b+1)*c, N)) for some b
PartitionedBy(c) ==
  \E b \in 0..nFiles :
    /\ i = b * c
    /\ batch = {k \in Files : b * c <= k /\ k < Min((b + 1) * c, nFiles)}

\* C28: the files are processed in consecutive index ranges of size c, the
\* effective concurrency, batch b covering [b*c, min((b+1)*c, N)); a run
\* without cache hits and failures returns a result of length N after
\* exactly N provider invocations.
C28_Partition ==
  /\ runPc \in {"prepare", "await"} => PartitionedBy(concurrency)
  /\ (runPc = "returned" /\ AllFresh) =>
       /\ SumOver(calls, Files) = nFiles
       /\ ArrayLength(results) = nFiles

\* the content of every descriptor of the list run is cleared
ListCleared == \A f \in Files : files[f].content = NullContent

\* C27: when a run has returned, the content of every input descriptor it
\* processed is cleared, for the list run and for the single-file call,
\* whether the file was a cache hit, a fresh success or a failure.
C27_ContentCleared ==
  /\ runPc = "returned" => ListCleared
  /\ single.pc = "returned" => single.content = NullContent

\* the files of a returned run that were not sent to the provider
Unsent == {f \in Files : calls[f] = 0}

\* what C24 says of the cache: with the cache disabled no lookup is made and
\* no step of the engine changes the cache directory
C24_CacheUntouched ==
  /\ [](~config.cache => \A f \in Files : ~lookup[f].done)
  /\ [](~config.cache =>
          /\ codebase.looked = 0 /\ codebase.stores = 0
          /\ \A f \in Files : /\ codebase.task[f].seen.lookup = ""
                               /\ codebase.task[f].seen.store = "")
  /\ [][(~config.cache /\ foreign' = foreign) => cache' = cache]_vars

\* C24 as stated: with the cache disabled a run makes no lookup and no
\* store, leaves the cache contents unchanged, and invokes the provider for
\* every file.
C24_CacheDisabled ==
  /\ C24_CacheUntouched
  /\ []((~config.cache /\ runPc = "returned") => Unsent = {})
  /\ []((~config.cache /\ codebase.pc = "returned") =>
          \A f \in Files : codebase.task[f].calls > 0)

\* C24 amended: as stated, but the provider is invoked for every file
\* whose prompt could be built.
C24_CacheDisabledButPromptless ==
  /\ C24_CacheUntouched
  /\ []((~config.cache /\ runPc = "returned") => Unsent = PromptlessFiles)
  /\ []((~config.cache /\ codebase.pc = "returned") =>
          \A f \in Files : codebase.task[f].calls > 0 <=> codebase.task[f].slot # NullSlot)

\* the cache is disabled, a record of the file lies in the cache directory,
\* and the run has sent every file to the provider and returned
C24_Witness ==
  /\ ~config.cache /\ runPc = "returned"
  /\ \A f \in Files : calls[f] >= 1 /\ Succeeded(f) /\ cache[files[f].path].exists

\* a number is the ceiling of len / 4
IsCeilOfQuarter(n, len) == 4 * n >= len /\ 4 * (n - 1) < len

\* C21: estimateTokens returns the sum of the prompt and completion counts
\* when the metadata has both as numbers; otherwise the total when that is
\* a number; otherwise 0 for the empty text and, for a provider without an
\* exact tokenizer, ceil(length / 4).
C21_EstimatePriority ==
  estimate.done =>
    LET m == estimate.metadata
        len == Len(estimate.text)
    IN IF m.prompt_tokens # -1 /\ m.completion_tokens # -1
         THEN estimate.result = m.prompt_tokens + m.completion_tokens
       ELSE IF m.total_tokens # -1 THEN estimate.result = m.total_tokens
       ELSE IF len = 0 THEN estimate.result = 0
       ELSE config.provider # "openai" => IsCeilOfQuarter(estimate.result, len)

\* 21 characters without metadata give 6 with gemini
C21_Witness ==
  /\ estimate.done /\ config.provider = "gemini"
  /\ estimate.metadata = NoMetadata /\ Len(estimate.text) = 21 /\ estimate.result = 6

\* C22: the constructor throws exactly when the provider is not ollama and
\* no API key is given, or the provider identifier is not a known one (so
\* ollama without a key is constructed); it makes no cache lookup and no
\* provider call, and none is ever made after it threw.
C22_FailFast ==
  /\ [][(engine = "none" /\ engine' # "none") =>
         /\ (engine' = "threw") <=>
              (\/ config.apiKey = "" /\ config.provider # "ollama"
               \/ config.provider \notin {"gemini", "openai", "ollama", Absent})
         /\ (engine' = "constructed") <=> (engine' # "threw")
         /\ UNCHANGED <<cache, calls, lookup, single>>]_vars
  /\ [](engine = "threw" =>
         /\ runs = 0 /\ single.pc = "idle"
         /\ \A f \in Files : calls[f] = 0 /\ ~lookup[f].done /\ cache[f] \in {NoRecord, PriorRecord("a")})

\* gemini without an API key: the constructor threw although a record of
\* the file lies in the cache directory
C22_Witness ==
  /\ engine = "threw" /\ config.provider = "gemini" /\ config.apiKey = ""
  /\ config.cache /\ cache[0].exists

\* ollama without an API key was constructed and has explained a file
C22_WitnessOllama ==
  /\ engine = "constructed" /\ config.provider = "ollama" /\ config.apiKey = ""
  /\ runPc = "returned" /\ calls[0] = 1

RECURSIVE Pow2(_)
Pow2(k) == IF k = 0 THEN 1 ELSE 2 * Pow2(k - 1)

\* the waits w of a task that failed `failed` times and whose last error
\* was or was not thrown: one wait after every failed attempt but the final
\* one, the k-th of base * 2^(k-1) milliseconds
BackedOff(w, base, failed, gaveUp) ==
  /\ Len(w) = failed - (IF gaveUp THEN 1 ELSE 0)
  /\ \A k \in 1..Len(w) : w[k] = base * Pow2(k - 1)

\* C30: the wait before the k-th retry of a task is delay * 2^(k-1)
\* milliseconds, delay being the configured retry.delay, or 1000 when the
\* config gives none (and then, with no attempts given either, a task that
\* always fails waits 1000, 2000 and 4000); no wait follows a successful
\* attempt or the final failed attempt.
C30_Backoff ==
  LET base == IF config.delay = NoDelay THEN 1000 ELSE config.delay
  IN /\ \A f \in Files :
          /\ pc[f] \in {"inflight", "settled"} =>
               BackedOff(backoff[f].waits, base, fails[f], thrown[f])
          /\ (config.attempts = 0 /\ thrown[f]) => Len(backoff[f].waits) = 3
     /\ single.pc \in {"inflight", "returned"} =>
          BackedOff(single.backoff.waits, base, single.fails,
                    single.pc = "returned" /\ single.calls > 0
                                            /\ single.fails = single.calls)

\* C25: a codebase-level run over a non-empty list does not throw, and
\* what it resolves to is a list of exactly one element, the synthetic
\* descriptor with its explanation, whatever mix of cache hits, fresh
\* successes and provider failures phase 1 met (prompt templates load).
C25_OneElement ==
  ~budget.faulty =>
    /\ codebase.pc # "rejected"
    /\ codebase.pc = "returned" =>
         /\ Len(codebase.result) = 1
         /\ codebase.result[1].kind = "result"
         /\ codebase.result[1].path \in SyntheticPaths

\* C26: when the synthesis provider call of a codebase-level run with the
\* cache enabled has succeeded, a record exists under the key of the
\* synthetic path, and phase 2 of a following run under the same config is
\* a cache hit that makes no provider call.
C26_SynthesisCached ==
  /\ codebase.stores = 1 => codebase.records[codebase.path].exists
  /\ (codebase.pc = "returned" /\ codebase.path \in codebase.synthesized) =>
       /\ codebase.calls = 0
       /\ codebase.result[1].cached

\* the provider invocations of f that have neither resolved nor rejected
Outstanding(f) == calls[f] - fails[f] - (IF lastResp[f].null THEN 0 ELSE 1)

\* C31: the retry loop of one task is sequential: at most one provider
\* invocation of the task is in flight at any time, and an invocation after
\* the first starts only when every earlier one has rejected and the wait
\* that follows each rejection has been made.
C31_SequentialRetries ==
  /\ [](\A f \in Files : /\ Outstanding(f) \in {0, 1}
                          /\ Outstanding(f) = 1 <=> pc[f] = "inflight")
  /\ [][\A f \in Files :
          calls'[f] > calls[f] =>
            /\ calls'[f] = calls[f] + 1
            /\ calls[f] > 0 =>
                 /\ pc[f] = "backoff"
                 /\ fails[f] = calls[f]
                 /\ Len(backoff[f].waits) = calls[f]]_vars
  /\ [][single.calls' > single.calls =>
          /\ single.calls' = single.calls + 1
          /\ single.calls > 0 =>
               /\ single.pc = "backoff"
               /\ single.fails = single.calls
               /\ Len(single.backoff.waits) = single.calls]_vars

\* the third invocation of a task is in flight, after two rejections and two waits
C31_Witness ==
  \E f \in Files :
    /\ pc[f] = "inflight" /\ calls[f] = 3 /\ fails[f] = 2
    /\ Len(backoff[f].waits) = 2

\* the state of the processing of file f in the run
Stage(f) ==
  IF ~lastResp[f].null THEN "Succeeded"
  ELSE IF pc[f] \in {"idle", "start", "queued"} THEN "Pending"
  ELSE IF pc[f] \in {"prompt", "ready"} THEN "Prompting"
  ELSE IF pc[f] = "inflight" THEN "Invoking"
  ELSE IF pc[f] = "backoff" THEN "Retrying"
  ELSE IF out[f].cached THEN "CacheHit"
  ELSE "Failed"

StageTransitions ==
  {<<"Pending", "CacheHit">>, <<"Pending", "Prompting">>, <<"Prompting", "Invoking">>,
   <<"Invoking", "Succeeded">>, <<"Invoking", "Retrying">>, <<"Retrying", "Invoking">>,
   <<"Invoking", "Failed">>}

\* a step within one run moves the files along the transitions of T only;
\* the three final states are terminal, with no later provider call and no
\* later write of the engine to the file's record
StageStep(T) ==
  runs' = runs =>
    \A f \in Files :
      /\ Stage(f)' # Stage(f) => <<Stage(f), Stage(f)'>> \in T
      /\ Stage(f) \in {"CacheHit", "Succeeded", "Failed"} =>
           /\ Stage(f)' = Stage(f)
           /\ calls'[f] = calls[f]
           /\ foreign' = foreign => cache'[files[f].path] = cache[files[f].path]

\* a file that hit the cache was never sent to the provider; the retry
\* loop is taken at most as often as there are attempts in force
StageBounds ==
  \A f \in Files :
    /\ Stage(f) = "CacheHit" => calls[f] = 0
    /\ calls[f] <= AttemptsInForce + 1

\* C32 as stated: a file's processing takes only the transitions Pending ->
\* CacheHit, Pending -> Prompting -> Invoking -> Succeeded | Retrying ->
\* Invoking | Failed; CacheHit, Succeeded and Failed are terminal, a file in
\* CacheHit never reaches Invoking, and the retry loop is bounded.
C32_Stages == [][StageStep(StageTransitions)]_vars /\ []StageBounds

\* C32 amended: as stated, with the transition Prompting -> Failed of a
\* file whose prompt cannot be built.
C32_StagesWithPromptFailure ==
  [][StageStep(StageTransitions \cup {<<"Prompting", "Failed">>})]_vars /\ []StageBounds

\* a file went through the retry loop twice and then succeeded, and its
\* record holds the response
C32_Witness ==
  \E f \in Files :
    /\ Stage(f) = "Succeeded" /\ pc[f] = "settled" /\ fails[f] = 2 /\ calls[f] = 3
    /\ cache[files[f].path].explanation = lastResp[f].text
    /\ cache[files[f].path].exists

\* the lookup of file f's task is made in this step
LookupStep(f) == ~lookup[f].done /\ lookup'[f].done

\* C33: a lookup changes at most the mtime field of the record of its key:
\* the refresh of the medium path leaves fileHash, fileSize, explanation,
\* timestamp and config as they were, a lookup that ends in a fast-path hit
\* or in a miss writes nothing, and the records of other keys are not touched.
C33_LookupFrame ==
  /\ [][\A f \in Files :
          LookupStep(f) =>
            LET p == files[f].path
            IN /\ \A q \in Files : q # p => cache'[q] = cache[q]
               /\ \A field \in {"exists", "fileHash", "fileSize", "explanation",
                                 "timestamp", "config"} :
                    cache'[p][field] = cache[p][field]
               /\ (lookup'[f].ret.null \/ lookup'[f].reads = 0) => cache'[p] = cache[p]]_vars
  /\ [][(single.pc = "start" /\ single.pc' # "start") =>
          /\ cache' = [cache EXCEPT ![SinglePath].mtime = cache'[SinglePath].mtime]
          /\ single.pc' = "prompt" => cache' = cache]_vars

\* a lookup on the medium path has refreshed the mtime of a record that
\* was stamped before this run, in a cache directory that holds a record
\* written at another time
C33_Witness ==
  \E f \in Files :
    /\ lookup[f].done /\ lookup[f].reads = 1 /\ ~lookup[f].ret.null
    /\ cache[files[f].path].mtime = disk[files[f].path].mtime
    /\ cache[files[f].path].mtime > 0
    /\ cache[files[f].path].timestamp < Now
    /\ cache[files[f].path].timestamp > 0

\* C34: during phase 1 of a codebase-level run every step of a per-file
\* task that reads the mode (the key of the lookup, the choice of the prompt
\* template, the key of the store) reads summary, whatever the interleaving
\* of the tasks of a batch.
C34_SummaryModeSeen ==
  \A f \in Files :
    /\ codebase.task[f].seen.lookup \in {"", "summary"}
    /\ codebase.task[f].seen.prompt \in {"", "summary"}
    /\ codebase.task[f].seen.store \in {"", "summary"}

\* the synthetic path that belongs to a codebase-level mode
PathOfMode(mode) ==
  IF mode = "onboarding" THEN "developer-onboarding" ELSE "project-architecture"

\* C35: once phase 1 has completed, and when the run returns, the mode of
\* the engine's config is the codebase-level mode the run was started with,
\* whatever the completion order of the phase-1 tasks (prompt templates
\* load), so that the synthetic descriptor of phase 2 has the path of that
\* mode.
C35_ModeRestored ==
  ~budget.faulty =>
    /\ codebase.pc \in {"phase2", "prompt", "inflight", "returned", "rejected"} =>
         config.mode = codebase.entryMode
    /\ codebase.path # "" => codebase.path = PathOfMode(codebase.entryMode)

\* the descriptors over which buildCodebaseSummary throws
Aborting ==
  {f \in Files : /\ files[f].content = NullContent
                 /\ ~Truthy(fileSummary(f)) \/ f \in codebase.keyFiles}

\* C40: in a codebase-level run the lookup and the provider call of the
\* synthesis are made only when every phase-1 task has settled, the
\* synthesis is requested at most once in a run (one lookup, one retry
\* loop), and a file whose summary slot is null does not abort phase 2.
C40_SynthesisAfterSummaries ==
  /\ (codebase.looked > 0 \/ codebase.calls > 0) =>
       \A f \in Files : codebase.task[f].pc = "settled"
  /\ codebase.looked <= 1 /\ codebase.calls <= AttemptsInForce + 1
  /\ codebase.error = "TypeError" =>
       \A f \in Aborting : codebase.task[f].slot # NullSlot

\* C36: every record written by a store pairs the explanation with the hash
\* and size of the content that was sent to the provider (the content of the
\* descriptor the prompt was built from), also when the file is written
\* between the analyzer's read and the store.
C36_RecordOfSentContent ==
  [][\A f \in Files :
       (StoreStep(f) /\ cache'[files[f].path] # cache[files[f].path]) =>
         /\ cache'[files[f].path].explanation = lastResp'[f].text
         /\ cache'[files[f].path].fileHash = Sha256(files[f].content)
         /\ cache'[files[f].path].fileSize = FileSize(files[f].content)]_vars

\* a provider invocation rejects in this step: one of a list task, of the
\* single-file call, of a summary task or of the synthesis
RejectionStep ==
  \/ \E f \in Files : fails'[f] > fails[f]
  \/ single.fails' > single.fails
  \/ \E f \in Files :
       /\ codebase.task[f].pc = "inflight"
       /\ \/ codebase'.task[f].pc = "inflight" /\ codebase'.task[f].calls > codebase.task[f].calls
          \/ codebase'.task[f].pc = "settled" /\ codebase'.task[f].slot.explanation = ErrorText
  \/ /\ codebase.pc = "inflight"
     /\ \/ codebase'.pc = "inflight" /\ codebase'.calls > codebase.calls
        \/ codebase'.pc = "returned" /\ codebase'.result[1].explanation \notin Responses

\* the explanations a record can hold: a provider response, or the text of a
\* record that was there before the engine's first run or that the other
\* client stored
StoredTexts == Responses \cup {PriorExplanation, OtherExplanation, ""}

\* C37: the error placeholder is never cached. A step in which a provider
\* invocation rejects writes nothing to the cache, no record ever holds
\* anything but a provider response, and when every invocation made for a
\* file in the earlier run rejected and no record was left from before, the
\* next run's lookup of the file is a miss.
C37_FailureNotCached ==
  /\ [][RejectionStep => cache' = cache]_vars
  /\ [](\A p \in DOMAIN cache : cache[p].explanation \in StoredTexts)
  /\ [](\A f \in Files :
          (prevCalls[f] > 0 /\ prevFails[f] = prevCalls[f] /\ lookup[f].done
             /\ ~lookup[f].ret.null) =>
            lookup[f].ret.text \in {PriorExplanation, OtherExplanation})

\* the only invocation of the first run rejected, so the run returned the
\* error text; the second run's lookup missed and the provider was invoked
\* again
C37_Witness ==
  \E f \in Files :
    /\ config.cache /\ runs = 2
    /\ prevCalls[f] > 0 /\ prevFails[f] = prevCalls[f]
    /\ lookup[f].done /\ lookup[f].ret.null /\ calls[f] > 0

\* C38: for every configured concurrency (0, negative, above 10 included)
\* the effective batch size is an integer in 1..10, every batch of a list
\* run holds between 1 and 10 files, and the loop variable only moves
\* towards the end of the list, so that the run ends once the provider calls
\* of its batches have resolved or rejected.
C38_BatchSizeInRange ==
  /\ concurrency \in 1..MAX_CONCURRENCY
  /\ runPc \in {"prepare", "await"} => Cardinality(batch) \in 1..MAX_CONCURRENCY
  /\ i >= 0

\* C39: an empty-string provider response is a valid explanation end to end.
\* The call that received it is not retried and stores it, and an explain
\* call whose lookup finds the record of an unchanged file with the empty
\* explanation is a cache hit: no provider invocation is made for the file and
\* its result carries cached = true and the empty explanation.
C39_EmptyExplanationHit ==
  \A f \in Files :
    /\ (Succeeded(f) /\ lastResp[f].text = "" /\ fails[f] = 0) => calls[f] = 1
    /\ (lookup[f].done /\ lookup[f].ret = JsString("")) =>
         /\ calls[f] = 0
         /\ pc[f] = "settled"
         /\ out[f].cached /\ out[f].explanation = ""

====
